---------------------------- MODULE Spec2Model ----------------------------
(***************************************************************************)
(* MealOps API (apps/api/src/server.ts): the weekly meal-plan handlers     *)
(* (GET and PUT /meal-plans) over a read-committed relational store, and   *)
(* the admin role handlers (bootstrap-self, PATCH role).                   *)
(*                                                                         *)
(* A date string "YYYY-MM-DD" is the record [wf, y, m, d]: wf says whether *)
(* the text matches DATE_ONLY_REGEX, and y, m, d are its three digit       *)
(* groups read as numbers.  A Date is the number of whole days since       *)
(* 1970-01-01 (every Date the handlers build is a UTC midnight); NoDate    *)
(* stands for null.                                                        *)
(***************************************************************************)
EXTENDS Integers, Sequences, FiniteSets, TLC

VARIABLES
  recipes,    \* committed Recipe rows: [id, userId, servings]
  plans,      \* committed MealPlan rows: [id, userId, weekStart]
  meals,      \* committed PlannedMeal rows: [id, planId, date, slot, recipeId]
  nextId,     \* number of PUT requests received: the source of fresh row ids
  version,    \* number of commits so far
  put,        \* per PUT worker: the request in flight and its transaction
  get,        \* per GET worker: the request in flight
  roles,      \* User rows: id -> role
  adm,        \* per admin worker: the admin request in flight
  tokens,     \* the tokens POST /auth/login has signed: [sub, role]
  ingredients,\* committed Ingredient rows: [id, kcalPer100g, ..., fatPer100g]
  items,      \* committed RecipeItem rows: [id, recipeId, ingredientId, quantityG]
  rec,        \* per POST /recipes worker: the request in flight
  del,        \* per DELETE /ingredients/:id worker: the request in flight
  lst,        \* the GET /recipes request in flight
  calc,       \* a helper function being evaluated: its arguments and result
  page        \* the weekly planner page of one signed-in user

mealVars == <<recipes, plans, meals, nextId, version, put, get>>
adminVars == <<roles, adm, tokens>>
foodVars == <<ingredients, items, rec, del, lst>>
vars == <<recipes, plans, meals, nextId, version, put, get, roles, adm, tokens,
          ingredients, items, rec, del, lst, calc, page>>

----------------------------------------------------------------------------
(* Bounds of the model *)

\* PUT /meal-plans requests received in one run
MaxPuts == 3
\* meals in one PUT /meal-plans body
MaxMeals == 2

NoDate == -1
NoId == 0

----------------------------------------------------------------------------
(* Dates: server.ts 36-65 *)

DateString(y, m, d) == [wf |-> TRUE, y |-> y, m |-> m, d |-> d]
\* a text that is not YYYY-MM-DD, such as 20240101
MalformedDate == [wf |-> FALSE, y |-> 2024, m |-> 1, d |-> 1]

IsLeapYear(y) == (y % 4 = 0 /\ y % 100 # 0) \/ y % 400 = 0

\* days from 1970-01-01 to the first day of month m of year y, then d - 1
\* more: a day past the month's end runs into the next month, as Date does
DaysFromCivil(y, m, d) ==
  LET yy  == IF m <= 2 THEN y - 1 ELSE y
      era == yy \div 400
      yoe == yy - era * 400
      mp  == IF m > 2 THEN m - 3 ELSE m + 9
      doy == (153 * mp + 2) \div 5 + d - 1
      doe == yoe * 365 + yoe \div 4 - yoe \div 100 + doy
  IN era * 146097 + doe - 719468

CivilFromDays(n) ==
  LET z   == n + 719468
      era == z \div 146097
      doe == z - era * 146097
      yoe == (doe - doe \div 1460 + doe \div 36524 - doe \div 146096) \div 365
      doy == doe - (365 * yoe + yoe \div 4 - yoe \div 100)
      mp  == (5 * doy + 2) \div 153
      d   == doy - (153 * mp + 2) \div 5 + 1
      m   == IF mp < 10 THEN mp + 3 ELSE mp - 9
      y   == yoe + era * 400 + (IF m <= 2 THEN 1 ELSE 0)
  IN [y |-> y, m |-> m, d |-> d]

\* new Date(`${value}T00:00:00.000Z`): NaN (NoDate) unless the month is 1..12
\* and the day 1..31; a day the month does not have rolls over
NewDate(s) ==
  IF s.m \in 1..12 /\ s.d \in 1..31 THEN DaysFromCivil(s.y, s.m, s.d) ELSE NoDate

\* the mutant: the local getters, west of Greenwich: the day before
formatDateOnlyLocal(date) ==
  LET c == CivilFromDays(date - 1) IN DateString(c.y, c.m, c.d)

\* the first ten characters of toISOString() for the civil date c: a year
\* outside 0000..9999 is written with a sign and six digits, and the ten
\* characters (such as +010000-01) are no YYYY-MM-DD and hold no day
ISOText(c) ==
  IF c.y \in 0..9999 THEN DateString(c.y, c.m, c.d)
  ELSE [wf |-> FALSE, y |-> c.y, m |-> c.m, d |-> 0]

\* date.toISOString().slice(0, 10)
formatDateOnly(date) ==
  CHOOSE text \in {ISOText(c) : c \in {CivilFromDays(date)}} : TRUE

parseDateOnlyNoRoundTrip(value) ==
  IF ~value.wf THEN NoDate ELSE NewDate(value)

parseDateOnly(value) ==
  IF ~value.wf THEN NoDate
  ELSE LET date == NewDate(value)
       IN IF date = NoDate THEN NoDate
          ELSE IF formatDateOnly(date) = value THEN date ELSE NoDate

isWithinWeekSevenDays(date, weekStart) ==
  LET diffDays == date - weekStart IN diffDays >= 0 /\ diffDays <= 7

\* the mutant: Math.abs(diffMs) <= dayMs * 6
isWithinWeekEitherSide(date, weekStart) ==
  LET diffDays == date - weekStart IN diffDays >= -6 /\ diffDays <= 6

\* diffMs >= 0 && diffMs <= dayMs * 6, in whole days (both are UTC midnights)
isWithinWeek(date, weekStart) ==
  LET diffDays == date - weekStart IN diffDays >= 0 /\ diffDays <= 6

\* getUTCDay(): 0 is Sunday (1970-01-01 was a Thursday)
UTCDay(date) == (date + 4) % 7
IsMonday(date) == UTCDay(date) = 1

\* next.setUTCDate(next.getUTCDate() + days)
addDaysUtc(date, days) == date + days

\* the mutant: no case for Sunday
startOfWeekMondayNoSunday(date) == addDaysUtc(date, 1 - UTCDay(date))

\* the weekly planner page (part_005 89-93)
startOfWeekMonday(date) ==
  LET day    == UTCDay(date)
      offset == IF day = 0 THEN -6 ELSE 1 - day
  IN addDaysUtc(date, offset)

slotSortOrder == <<"breakfast", "lunch", "afternoon_snack", "dinner">>

\* the mutant: the slots in the order of their names
slotRankByName(slot) ==
  IF slot = "afternoon_snack" THEN 0
  ELSE IF slot = "breakfast" THEN 1
  ELSE IF slot = "dinner" THEN 2
  ELSE IF slot = "lunch" THEN 3
  ELSE 4

slotRank(slot) ==
  IF \E i \in 1..Len(slotSortOrder) : slotSortOrder[i] = slot
  THEN (CHOOSE i \in 1..Len(slotSortOrder) : slotSortOrder[i] = slot) - 1
  ELSE Len(slotSortOrder)

\* a.date.localeCompare(b.date) on two YYYY-MM-DD texts: -1, 0 or 1
DateCompare(a, b) ==
  IF a.y # b.y THEN (IF a.y < b.y THEN -1 ELSE 1)
  ELSE IF a.m # b.m THEN (IF a.m < b.m THEN -1 ELSE 1)
  ELSE IF a.d # b.d THEN (IF a.d < b.d THEN -1 ELSE 1)
  ELSE 0

\* the comparator of both sorts: negative when a goes before b
MealCompare(a, b) ==
  LET dateCompare == DateCompare(a.date, b.date)
  IN IF dateCompare # 0 THEN dateCompare ELSE slotRank(a.slot) - slotRank(b.slot)

----------------------------------------------------------------------------
(* The store and the requests *)

Users == {"u1", "u2"}
PutWorkers == {"p1", "p2"}
GetWorkers == {"g1"}

\* Recipe rows present from the start: r1 is u1's, r2 is u2's, r9 is no row
InitRecipes ==
  {[id |-> "r1", userId |-> "u1", servings |-> 1],
   [id |-> "r2", userId |-> "u2", servings |-> 1]}

Meal(date, slot, recipeId) == [date |-> date, slot |-> slot, recipeId |-> recipeId]

\* sequences over S of length at most n
SeqsUpTo(S, n) == UNION {[1..k -> S] : k \in 0..n}

NoResp ==
  [code |-> 0, error |-> "", date |-> MalformedDate, id |-> NoId,
   weekStart |-> MalformedDate, meals |-> <<>>]

ErrorResp(code, error, date) ==
  [code |-> code, error |-> error, date |-> date, id |-> NoId,
   weekStart |-> MalformedDate, meals |-> <<>>]

PlanResp(id, weekStart, ms) ==
  [code |-> 200, error |-> "", date |-> MalformedDate, id |-> id,
   weekStart |-> weekStart, meals |-> ms]

\* body and query are the request as sent; weekStart and meals are the
\* handler's locals of those names (parsed)
IdlePut ==
  [pc |-> "idle", userId |-> "", body |-> [weekStart |-> MalformedDate, meals |-> <<>>],
   weekStart |-> NoDate, meals |-> <<>>, tx |-> NoId, planId |-> NoId, created |-> FALSE, targets |-> {},
   deleted |-> {}, inserted |-> {}, resp |-> NoResp, ver |-> 0]

IdleGet ==
  [pc |-> "idle", userId |-> "", query |-> [weekStart |-> MalformedDate],
   weekStart |-> NoDate, planId |-> NoId,
   rows |-> {}, resp |-> NoResp, verPlan |-> 0, verMeals |-> 0, seen |-> {}]

\* a transaction that has begun and neither committed nor rolled back
TxOpen(w) == put[w].pc \in {"create", "scan", "delete", "insert", "read", "commit"}

----------------------------------------------------------------------------
(* PUT /meal-plans: validation, server.ts 312-350 *)

\* meals.push({ ...meal, date }) for every meal of the body
ParsedMeals(body) ==
  [i \in 1..Len(body) |->
     Meal(parseDateOnly(body[i].date), body[i].slot, body[i].recipeId)]

\* the meal at which the first loop returns 400, or 0
FirstBadDate(weekStart, body) ==
  LET bad == {i \in 1..Len(body) :
                \/ parseDateOnly(body[i].date) = NoDate
                \/ ~isWithinWeek(parseDateOnly(body[i].date), weekStart)}
  IN IF bad = {} THEN 0 ELSE CHOOSE i \in bad : \A j \in bad : i <= j

SlotKeyWithRecipe(meal) == <<formatDateOnly(meal.date), meal.slot, meal.recipeId>>

\* `${formatDateOnly(meal.date)}:${meal.slot}`
SlotKey(meal) == <<formatDateOnly(meal.date), meal.slot>>

\* the meal at which seenSlots.has(key) first holds, or 0
FirstDuplicate(ms) ==
  LET dup == {i \in 1..Len(ms) : \E j \in 1..(i - 1) : SlotKey(ms[j]) = SlotKey(ms[i])}
  IN IF dup = {} THEN 0 ELSE CHOOSE i \in dup : \A j \in dup : i <= j

\* [...new Set(meals.map((meal) => meal.recipeId))]
RecipeIds(ms) == {ms[i].recipeId : i \in 1..Len(ms)}

\* the mutant: the duplicate check runs before the date checks
ValidateDuplicatesFirst(weekStr, body) ==
  LET weekStart == parseDateOnly(weekStr)
      badDate   == FirstBadDate(weekStart, body)
      dup       == FirstDuplicate(ParsedMeals(body))
  IN IF weekStart = NoDate
       THEN ErrorResp(400, "weekStart must be YYYY-MM-DD", MalformedDate)
     ELSE IF dup # 0
       THEN ErrorResp(400, "Duplicate slot for date",
                      formatDateOnly(ParsedMeals(body)[dup].date))
     ELSE IF badDate # 0
       THEN IF parseDateOnly(body[badDate].date) = NoDate
              THEN ErrorResp(400, "Meal date must be YYYY-MM-DD", body[badDate].date)
              ELSE ErrorResp(400, "Meal date is outside selected week", body[badDate].date)
     ELSE NoResp

\* the synchronous checks before the first await: the 400 response, or NoResp
Validate(weekStr, body) ==
  LET weekStart == parseDateOnly(weekStr)
      badDate   == FirstBadDate(weekStart, body)
      dup       == FirstDuplicate(ParsedMeals(body))
  IN IF weekStart = NoDate
       THEN ErrorResp(400, "weekStart must be YYYY-MM-DD", MalformedDate)
     ELSE IF badDate # 0
       THEN IF parseDateOnly(body[badDate].date) = NoDate
              THEN ErrorResp(400, "Meal date must be YYYY-MM-DD", body[badDate].date)
              ELSE ErrorResp(400, "Meal date is outside selected week", body[badDate].date)
     ELSE IF dup # 0
       THEN ErrorResp(400, "Duplicate slot for date",
                      formatDateOnly(ParsedMeals(body)[dup].date))
     ELSE NoResp

PutStart(w, userId, weekStr, body) ==
  /\ put[w].pc = "idle"
  /\ nextId < MaxPuts
  /\ nextId' = nextId + 1
  /\ LET resp == Validate(weekStr, body)
     IN put' = [put EXCEPT ![w] =
                  IF resp # NoResp
                  THEN [IdlePut EXCEPT !.pc = "done", !.userId = userId,
                          !.body = [weekStart |-> weekStr, meals |-> body],
                          !.tx = nextId + 1, !.resp = resp]
                  ELSE [IdlePut EXCEPT !.userId = userId,
                          !.body = [weekStart |-> weekStr, meals |-> body],
                          !.weekStart = parseDateOnly(weekStr),
                          !.meals = ParsedMeals(body), !.tx = nextId + 1,
                          !.pc = IF RecipeIds(body) # {} THEN "recipes" ELSE "find"]]
  /\ UNCHANGED <<foodVars, calc, recipes, plans, meals, version, get, roles, tokens, adm, page>>

\* a field of a body that is absent, or is not a string
NoString == [wf |-> FALSE, y |-> -1, m |-> -1, d |-> -1]

\* z.enum(['breakfast', 'lunch', 'afternoon_snack', 'dinner'])
mealSlotSchema == {"breakfast", "lunch", "afternoon_snack", "dinner"}

\* Body.parse(req.body) of PUT /meal-plans returns
PutShapeOk(raw) ==
  /\ raw.weekStart # NoString
  /\ \A i \in 1..Len(raw.meals) :
       /\ raw.meals[i].date # NoString
       /\ raw.meals[i].slot \in mealSlotSchema
       /\ raw.meals[i].recipeId # ""

\* what Body.parse throws: a ZodError, which has no statusCode (0 here)
ZodError == [name |-> "ZodError", statusCode |-> 0]

\* the reply to an error thrown out of a handler: server.ts sets no error
\* handler, so Fastify's own answers with the error's statusCode if that is
\* 400 or more, and with 500 otherwise
DefaultErrorStatus(error) == IF error.statusCode >= 400 THEN error.statusCode ELSE 500

\* PUT /meal-plans with a body that Body.parse rejects
PutThrow(w, userId, raw) ==
  /\ put[w].pc = "idle"
  /\ nextId < MaxPuts
  /\ ~PutShapeOk(raw)
  /\ nextId' = nextId + 1
  /\ put' = [put EXCEPT ![w] =
               [IdlePut EXCEPT !.pc = "done", !.userId = userId, !.body = raw,
                  !.tx = nextId + 1,
                  !.resp = ErrorResp(DefaultErrorStatus(ZodError), ZodError.name, MalformedDate)]]
  /\ UNCHANGED <<foodVars, calc, recipes, plans, meals, version, get, roles, tokens, adm, page>>

\* PUT /meal-plans with any body
PutRequest(w, userId, raw) ==
  \/ PutShapeOk(raw) /\ PutStart(w, userId, raw.weekStart, raw.meals)
  \/ PutThrow(w, userId, raw)

FoundRecipesAnyOwner(userId, recipeIds) == {r \in recipes : r.id \in recipeIds}

\* prisma.recipe.findMany({ where: { userId, id: { in: recipeIds } } })
FoundRecipes(userId, recipeIds) ==
  {r \in recipes : r.userId = userId /\ r.id \in recipeIds}

\* the mutant: no recipe lookup before the transaction
PutSkipRecipes(w) ==
  /\ put[w].pc = "recipes"
  /\ put' = [put EXCEPT ![w].pc = "find"]
  /\ UNCHANGED <<foodVars, calc, recipes, plans, meals, nextId, version, get, roles, tokens, adm, page>>

\* recipes = findMany({ where: { userId, id: { in: recipeIds } } }); 400 unless
\* recipes.length === recipeIds.length
PutCheckRecipes(w) ==
  /\ put[w].pc = "recipes"
  /\ LET recipeIds == RecipeIds(put[w].meals)
         found     == FoundRecipes(put[w].userId, recipeIds)
     IN put' = [put EXCEPT ![w] =
                  IF Cardinality(found) # Cardinality(recipeIds)
                  THEN [@ EXCEPT !.pc = "done",
                                 !.resp = ErrorResp(400,
                                   "One or more recipes were not found for this user",
                                   MalformedDate)]
                  ELSE [@ EXCEPT !.pc = "find"]]
  /\ UNCHANGED <<foodVars, calc, recipes, plans, meals, nextId, version, get, roles, tokens, adm, page>>

----------------------------------------------------------------------------
(* PUT /meal-plans: the transaction, server.ts 352-390.  Each statement is   *)
(* one step.  The store is read committed: a statement reads the committed  *)
(* rows and the transaction's own writes; its writes reach the others at    *)
(* commit; a row it deleted stays locked until then.                        *)

OtherOpen(w) == {o \in PutWorkers \ {w} : TxOpen(o)}

NoPlanKeyConflict(userId, weekStart, rows) == FALSE

\* the store refuses a second MealPlan row for one (userId, weekStart)
PlanKeyConflict(userId, weekStart, rows) ==
  \E p \in rows : p.userId = userId /\ p.weekStart = weekStart

\* tx.mealPlan.findFirst({ where: { userId, weekStart } })
\* the mutant: any plan of the user, whatever its week
FindExistingAnyWeek(userId, weekStart) == {p \in plans : p.userId = userId}

\* tx.mealPlan.findFirst({ where: { userId, weekStart } })
FindExisting(userId, weekStart) ==
  {p \in plans : p.userId = userId /\ p.weekStart = weekStart}

TxFind(w) ==
  /\ put[w].pc = "find"
  /\ LET existing == FindExisting(put[w].userId, put[w].weekStart)
     IN \/ /\ existing = {}
           /\ put' = [put EXCEPT ![w].pc = "create"]
        \/ \E p \in existing :
             put' = [put EXCEPT ![w].pc = "scan", ![w].planId = p.id]
  /\ UNCHANGED <<foodVars, calc, recipes, plans, meals, nextId, version, get, roles, tokens, adm, page>>

\* tx.mealPlan.create({ data: { userId, weekStart } }): it waits for an open
\* transaction that inserted the same key, and fails (the handler answers
\* 500 and the transaction rolls back) when the key is committed
TxCreate(w) ==
  /\ put[w].pc = "create"
  /\ LET userId    == put[w].userId
         weekStart == put[w].weekStart
         pending   == {[id |-> put[o].planId, userId |-> put[o].userId,
                        weekStart |-> put[o].weekStart] :
                          o \in {o \in OtherOpen(w) : put[o].created}}
     IN /\ ~PlanKeyConflict(userId, weekStart, pending)
        /\ put' = [put EXCEPT ![w] =
                     IF PlanKeyConflict(userId, weekStart, plans)
                     THEN [@ EXCEPT !.pc = "done",
                                    !.resp = ErrorResp(500, "Internal Server Error",
                                                       MalformedDate)]
                     ELSE [@ EXCEPT !.pc = "scan", !.planId = put[w].tx,
                                    !.created = TRUE]]
  /\ UNCHANGED <<foodVars, calc, recipes, plans, meals, nextId, version, get, roles, tokens, adm, page>>

DeleteNothing(planId) == {}

\* the mutant: deleteMany without where: { planId }
DeleteTargetsAnyPlan(planId) == {r.id : r \in meals}

\* the rows tx.plannedMeal.deleteMany({ where: { planId } }) finds
DeleteTargets(planId) == {r.id : r \in {r \in meals : r.planId = planId}}

TxDeleteScan(w) ==
  /\ put[w].pc = "scan"
  /\ put' = [put EXCEPT ![w].pc = "delete", ![w].targets = DeleteTargets(put[w].planId)]
  /\ UNCHANGED <<foodVars, calc, recipes, plans, meals, nextId, version, get, roles, tokens, adm, page>>

\* deleteMany takes each row's lock: it waits while another open transaction
\* holds one, and skips a row that was deleted meanwhile
TxDeleteApply(w) ==
  /\ put[w].pc = "delete"
  /\ \A o \in OtherOpen(w) : put[o].deleted \cap put[w].targets = {}
  /\ put' = [put EXCEPT ![w].pc = "insert", ![w].targets = {},
                        ![w].deleted = put[w].targets \cap {r.id : r \in meals}]
  /\ UNCHANGED <<foodVars, calc, recipes, plans, meals, nextId, version, get, roles, tokens, adm, page>>

\* if (meals.length > 0) tx.plannedMeal.createMany({ data: meals.map(...) })
TxInsert(w) ==
  /\ put[w].pc = "insert"
  /\ LET ms == put[w].meals
     IN put' = [put EXCEPT ![w].pc = "read",
                  ![w].inserted =
                     {[id |-> <<put[w].tx, i>>, planId |-> put[w].planId,
                       date |-> ms[i].date, slot |-> ms[i].slot,
                       recipeId |-> ms[i].recipeId] : i \in 1..Len(ms)}]
  /\ UNCHANGED <<foodVars, calc, recipes, plans, meals, nextId, version, get, roles, tokens, adm, page>>

\* one meal of a response: { date: formatDateOnly(meal.date), slot, recipeId }
MealView(r) == Meal(formatDateOnly(r.date), r.slot, r.recipeId)

\* .map(...).sort(...): the orders a stable sort can give the rows, whatever
\* order the store returned them in
RECURSIVE SortedOrders(_)
SortedOrders(rows) ==
  IF rows = {} THEN {<<>>}
  ELSE LET first == {r \in rows :
                       \A q \in rows : MealCompare(MealView(r), MealView(q)) <= 0}
       IN UNION {{<<MealView(r)>> \o rest : rest \in SortedOrders(rows \ {r})} :
                   r \in first}

\* tx.mealPlan.findUniqueOrThrow({ where: { id: planId }, include: { meals } })
TxRead(w) ==
  /\ put[w].pc = "read"
  /\ LET rows == {r \in meals : r.planId = put[w].planId /\ r.id \notin put[w].deleted}
                   \cup put[w].inserted
     IN \E ms \in SortedOrders(rows) :
          put' = [put EXCEPT ![w].pc = "commit",
                    ![w].resp = PlanResp(put[w].planId, formatDateOnly(put[w].weekStart),
                                         ms)]
  /\ UNCHANGED <<foodVars, calc, recipes, plans, meals, nextId, version, get, roles, tokens, adm, page>>

\* the committed PlannedMeal rows of the plans of (userId, weekStart)
StoredRows(ps, ms, userId, weekStart) ==
  {r \in ms : \E p \in ps : /\ p.id = r.planId
                            /\ p.userId = userId
                            /\ p.weekStart = weekStart}

TxCommit(w) ==
  /\ put[w].pc = "commit"
  /\ plans' = plans \cup
       (IF put[w].created
        THEN {[id |-> put[w].planId, userId |-> put[w].userId,
               weekStart |-> put[w].weekStart]}
        ELSE {})
  /\ meals' = {r \in meals : r.id \notin put[w].deleted} \cup put[w].inserted
  /\ version' = version + 1
  /\ put' = [put EXCEPT ![w].pc = "done", ![w].ver = version + 1, ![w].inserted = {}]
  /\ get' = [g \in GetWorkers |->
               IF get[g].pc \in {"plan", "meals"}
               THEN [get[g] EXCEPT !.seen = @ \cup
                       {StoredRows(plans', meals', get[g].userId, get[g].weekStart)}]
               ELSE get[g]]
  /\ UNCHANGED <<foodVars, calc, recipes, nextId, roles, tokens, adm, page>>

PutReturn(w) ==
  /\ put[w].pc = "done"
  /\ put' = [put EXCEPT ![w] = IdlePut]
  /\ UNCHANGED <<foodVars, calc, recipes, plans, meals, nextId, version, get, roles, tokens, adm, page>>

----------------------------------------------------------------------------
(* The weekly planner page, part_005: WeeklyMealPlanPage of user u1 in a    *)
(* browser, its PUT /meal-plans sent through worker p1                      *)

PageUser == "u1"
PageWorker == "p1"

\* mealSlots, in the order save() walks them
mealSlots == <<"breakfast", "lunch", "afternoon_snack", "dinner">>

NoPayload == [weekStart |-> MalformedDate, meals |-> <<>>]

\* pc: unmounted, shown, error (the Alert of a failed query), crashed (an
\* exception while rendering); selections holds one entry per (date, slot)
NoPage ==
  [pc |-> "unmounted", weekStart |-> MalformedDate, weekDates |-> <<>>,
   selections |-> {}, isLoading |-> FALSE, stale |-> FALSE, isPending |-> FALSE,
   tx |-> NoId, payload |-> NoPayload, code |-> 0]

\* the page's parseDateOnly, part_005 74-77: Date.UTC(year, month - 1, day)
\* of the numbers between the dashes; Date.UTC reads a year 0..99 as
\* 1900 + year; a text without a day part gives an Invalid Date
pageParseDateOnly(value) ==
  IF ~value.wf THEN NoDate
  ELSE DaysFromCivil(IF value.y \in 0..99 THEN 1900 + value.y ELSE value.y,
                     value.m, value.d)

\* Array.from({ length: 7 }, (_, idx) => formatDateOnly(addDaysUtc(start, idx)))
buildWeekDates(weekStart) ==
  LET start == pageParseDateOnly(weekStart)
  IN [idx \in 1..7 |-> formatDateOnly(addDaysUtc(start, idx - 1))]

\* toISOString() of an Invalid Date in buildWeekDates, or Intl.DateTimeFormat
\* format() of one in formatDisplayDate, throws a RangeError
RenderThrows(weekStart) ==
  \/ pageParseDateOnly(weekStart) = NoDate
  \/ \E idx \in 1..7 : pageParseDateOnly(buildWeekDates(weekStart)[idx]) = NoDate

\* the page after setWeekStart(weekStart): a new query key, selections as
\* they were until the plan arrives
ShowWeek(weekStart) ==
  IF RenderThrows(weekStart)
  THEN [page EXCEPT !.pc = "crashed", !.weekStart = weekStart]
  ELSE [page EXCEPT !.pc = "shown", !.weekStart = weekStart,
          !.weekDates = buildWeekDates(weekStart), !.isLoading = TRUE, !.stale = FALSE]

pageVars == <<mealVars, adminVars, foodVars, calc>>

\* the first render: today is new Date().toISOString().slice(0, 10)
PageMount(today) ==
  /\ page.pc = "unmounted"
  /\ \E weekStart \in {formatDateOnly(startOfWeekMonday(pageParseDateOnly(today)))} :
       \E shown \in {ShowWeek(weekStart)} : page' = [shown EXCEPT !.selections = {}]
  /\ UNCHANGED pageVars

\* onAnyDayChange(value), value the non-empty value of the date field
onAnyDayChange(value) ==
  /\ page.pc = "shown"
  /\ \E weekStart \in {formatDateOnly(startOfWeekMonday(pageParseDateOnly(value)))} :
       /\ weekStart # page.weekStart
       /\ page' = ShowWeek(weekStart)
  /\ UNCHANGED pageVars

\* the answer of GET /meal-plans?weekStart= for the page's user
FetchMealPlan(weekStart) ==
  IF parseDateOnly(weekStart) = NoDate THEN ErrorResp(400, "weekStart must be YYYY-MM-DD", MalformedDate)
  ELSE LET existing == FindExisting(PageUser, parseDateOnly(weekStart))
           rows     == {m \in meals : \E p \in existing : m.planId = p.id}
       IN [code |-> 200, meals |-> {Meal(formatDateOnly(m.date), m.slot, m.recipeId) : m \in rows}]

\* the effect on mealPlanQuery.data, part_005 139-153
PlanLoaded ==
  /\ page.pc = "shown" /\ (page.isLoading \/ page.stale)
  /\ LET data == FetchMealPlan(page.weekStart)
         keys == {page.weekDates[idx] : idx \in 1..7}
     IN page' = IF data.code # 200 THEN [page EXCEPT !.pc = "error"]
                ELSE [page EXCEPT !.isLoading = FALSE, !.stale = FALSE,
                        !.selections = {m \in data.meals : m.date \in keys}]
  /\ UNCHANGED pageVars

\* setSlotRecipe of a Select of the grid; recipeId "" is None
setSlotRecipe(date, slot, recipeId) ==
  /\ page.pc = "shown" /\ ~page.isLoading
  /\ date \in {page.weekDates[idx] : idx \in 1..7}
  /\ LET others == {m \in page.selections : ~(m.date = date /\ m.slot = slot)}
     IN page' = [page EXCEPT !.selections =
                   IF recipeId # "" THEN others \cup {Meal(date, slot, recipeId)} ELSE others]
  /\ UNCHANGED pageVars

clearWeek ==
  /\ page.pc = "shown" /\ ~page.isLoading /\ ~page.isPending
  /\ page' = [page EXCEPT !.selections = {}]
  /\ UNCHANGED pageVars

\* the meals save() pushes: weekDates in order, mealSlots in order
SaveMeals(weekDates, selections) ==
  LET cell(k)  == [date |-> weekDates[((k - 1) \div 4) + 1], slot |-> mealSlots[((k - 1) % 4) + 1]]
      chosen(c) == {m \in selections : m.date = c.date /\ m.slot = c.slot}
      cells    == SelectSeq([k \in 1..28 |-> cell(k)], LAMBDA c : chosen(c) # {})
  IN [k \in 1..Len(cells) |-> CHOOSE m \in chosen(cells[k]) : TRUE]

\* save(): the payload handed to saveMutation.mutate
save ==
  /\ page.pc = "shown" /\ ~page.isLoading /\ ~page.isPending
  /\ put[PageWorker].pc = "idle" /\ nextId < MaxPuts
  /\ page' = [page EXCEPT !.isPending = TRUE, !.tx = nextId + 1,
                !.payload = [weekStart |-> page.weekStart,
                             meals |-> SaveMeals(page.weekDates, page.selections)]]
  /\ UNCHANGED pageVars

\* saveMealPlan(payload): the PUT /meal-plans request reaches the server
PageSend ==
  /\ page.isPending /\ nextId < page.tx
  /\ \E q \in {page.payload} : PutStart(PageWorker, PageUser, q.weekStart, q.meals)

\* the mutation settles; onSuccess invalidates the query of the week
PageSettled ==
  /\ page.isPending /\ put[PageWorker].pc = "done" /\ put[PageWorker].tx = page.tx
  /\ page' = [page EXCEPT !.isPending = FALSE, !.code = put[PageWorker].resp.code,
                !.tx = NoId, !.payload = NoPayload,
                !.stale = (put[PageWorker].resp.code = 200 /\ page.pc = "shown")]
  /\ put' = [put EXCEPT ![PageWorker] = IdlePut]
  /\ UNCHANGED <<foodVars, calc, recipes, plans, meals, nextId, version, get, roles, tokens, adm>>

----------------------------------------------------------------------------
(* GET /meal-plans, server.ts 256-298: outside any transaction, one query   *)
(* for the plan and one for its meals                                       *)

ReadUncommittedMeals ==
  {r \in meals : \A o \in PutWorkers : TxOpen(o) => r.id \notin put[o].deleted}
    \cup UNION {put[o].inserted : o \in {o \in PutWorkers : TxOpen(o)}}

\* what a query outside the transaction reads of PlannedMeal: the writes of
\* prisma.$transaction are not there before it commits
ReadCommittedMeals == meals

GetStart(g, userId, weekStr) ==
  /\ get[g].pc = "idle"
  /\ LET weekStart == parseDateOnly(weekStr)
     IN get' = [get EXCEPT ![g] =
                  IF weekStart = NoDate
                  THEN [IdleGet EXCEPT !.pc = "done", !.userId = userId,
                          !.query = [weekStart |-> weekStr],
                          !.resp = ErrorResp(400, "weekStart must be YYYY-MM-DD",
                                             MalformedDate)]
                  ELSE [IdleGet EXCEPT !.pc = "plan", !.userId = userId,
                          !.query = [weekStart |-> weekStr], !.weekStart = weekStart,
                          !.seen = {StoredRows(plans, meals, userId, weekStart)}]]
  /\ UNCHANGED <<foodVars, calc, recipes, plans, meals, nextId, version, put, roles, tokens, adm, page>>

\* prisma.mealPlan.findFirst({ where: { userId, weekStart } })
GetPlan(g) ==
  /\ get[g].pc = "plan"
  /\ LET found == FindExisting(get[g].userId, get[g].weekStart)
     IN \/ /\ found = {}
           /\ get' = [get EXCEPT ![g].pc = "done", ![g].verPlan = version,
                        ![g].verMeals = version,
                        ![g].resp = PlanResp(NoId, get[g].query.weekStart, <<>>)]
        \/ \E p \in found :
             get' = [get EXCEPT ![g].pc = "meals", ![g].planId = p.id,
                                ![g].verPlan = version]
  /\ UNCHANGED <<foodVars, calc, recipes, plans, meals, nextId, version, put, roles, tokens, adm, page>>

\* include: { meals }, then .map(...).sort(...)
GetMeals(g) ==
  /\ get[g].pc = "meals"
  /\ LET rows == {r \in ReadCommittedMeals : r.planId = get[g].planId}
     IN \E ms \in SortedOrders(rows) :
          get' = [get EXCEPT ![g].pc = "done", ![g].rows = rows,
                    ![g].verMeals = version,
                    ![g].resp = PlanResp(get[g].planId, get[g].query.weekStart, ms)]
  /\ UNCHANGED <<foodVars, calc, recipes, plans, meals, nextId, version, put, roles, tokens, adm, page>>

GetReturn(g) ==
  /\ get[g].pc = "done"
  /\ get' = [get EXCEPT ![g] = IdleGet]
  /\ UNCHANGED <<foodVars, calc, recipes, plans, meals, nextId, version, put, roles, tokens, adm, page>>

----------------------------------------------------------------------------
(* Admin roles, server.ts 19-33 and 412-468: no transaction, every query a  *)
(* step of its own                                                          *)

AdminWorkers == {"a1", "a2"}

\* no token, or one that jwtVerify rejects
NoToken == [sub |-> "", role |-> ""]

IdleAdm ==
  [pc |-> "idle", route |-> "", token |-> NoToken, userId |-> "", id |-> "",
   role |-> "", code |-> 0]

AdminCount == Cardinality({u \in DOMAIN roles : roles[u] = "ADMIN"})

BootstrapStart(w, userId) ==
  /\ adm[w].pc = "idle"
  /\ adm' = [adm EXCEPT ![w] = [IdleAdm EXCEPT !.pc = "bootCount", !.userId = userId]]
  /\ UNCHANGED <<foodVars, calc, recipes, plans, meals, nextId, version, put, get, roles, tokens, page>>

\* prisma.user.count({ where: { role: 'ADMIN' } }); 409 if adminCount > 0
BootstrapCount(w) ==
  /\ adm[w].pc = "bootCount"
  /\ adm' = [adm EXCEPT ![w] =
               IF AdminCount > 0 THEN [@ EXCEPT !.pc = "done", !.code = 409]
               ELSE [@ EXCEPT !.pc = "bootUpdate"]]
  /\ UNCHANGED <<foodVars, calc, recipes, plans, meals, nextId, version, put, get, roles, tokens, page>>

\* prisma.user.update({ where: { id: userId }, data: { role: 'ADMIN' } })
BootstrapUpdate(w) ==
  /\ adm[w].pc = "bootUpdate"
  /\ roles' = [roles EXCEPT ![adm[w].userId] = "ADMIN"]
  /\ adm' = [adm EXCEPT ![w].pc = "done", ![w].code = 200]
  /\ UNCHANGED <<foodVars, calc, recipes, plans, meals, nextId, version, put, get, tokens, page>>

PatchStart(w, userId, id, role) ==
  /\ adm[w].pc = "idle"
  /\ adm' = [adm EXCEPT ![w] =
               [IdleAdm EXCEPT !.pc = "gate", !.route = "patchRole", !.userId = userId,
                               !.id = id, !.role = role]]
  /\ UNCHANGED <<foodVars, calc, recipes, plans, meals, nextId, version, put, get, roles, tokens, page>>

\* the mutant: the gate trusts the role the token carries
RequireAdminByToken(w) ==
  /\ adm[w].pc = "gate"
  /\ adm' = [adm EXCEPT ![w] =
               IF adm[w].userId = "" THEN [@ EXCEPT !.pc = "done", !.code = 401]
               ELSE IF adm[w].token.role # "ADMIN"
               THEN [@ EXCEPT !.pc = "done", !.code = 403]
               ELSE [@ EXCEPT !.pc = IF adm[w].route = "patchRole" THEN "target"
                                     ELSE adm[w].route]]
  /\ UNCHANGED <<foodVars, calc, recipes, plans, meals, nextId, version, put, get, roles, tokens, page>>

\* where a route's handler begins
HandlerPc(route) == IF route = "patchRole" THEN "target" ELSE route

\* requireAdmin: 401 without req.user.sub, 403 unless the requester's stored
\* role is ADMIN, otherwise the route's handler runs
RequireAdmin(w) ==
  /\ adm[w].pc = "gate"
  /\ adm' = [adm EXCEPT ![w] =
               IF adm[w].userId = "" THEN [@ EXCEPT !.pc = "done", !.code = 401]
               ELSE IF adm[w].userId \notin DOMAIN roles \/ roles[adm[w].userId] # "ADMIN"
               THEN [@ EXCEPT !.pc = "done", !.code = 403]
               ELSE [@ EXCEPT !.pc = HandlerPc(adm[w].route)]]
  /\ UNCHANGED <<foodVars, calc, recipes, plans, meals, nextId, version, put, get, roles, tokens, page>>

\* prisma.user.findUnique({ where: { id } }); 404 if there is no such user
PatchFindTarget(w) ==
  /\ adm[w].pc = "target"
  /\ adm' = [adm EXCEPT ![w] =
               IF adm[w].id \notin DOMAIN roles THEN [@ EXCEPT !.pc = "done", !.code = 404]
               ELSE IF roles[adm[w].id] = "ADMIN" /\ adm[w].role = "USER"
                 THEN [@ EXCEPT !.pc = "count"]
               ELSE [@ EXCEPT !.pc = "update"]]
  /\ UNCHANGED <<foodVars, calc, recipes, plans, meals, nextId, version, put, get, roles, tokens, page>>

\* the mutant: adminCount < 1
PatchCountBelowOne(w) ==
  /\ adm[w].pc = "count"
  /\ adm' = [adm EXCEPT ![w] =
               IF AdminCount < 1 THEN [@ EXCEPT !.pc = "done", !.code = 409]
               ELSE [@ EXCEPT !.pc = "update"]]
  /\ UNCHANGED <<foodVars, calc, recipes, plans, meals, nextId, version, put, get, roles, tokens, page>>

\* adminCount <= 1: 409, the last admin keeps the role
PatchCount(w) ==
  /\ adm[w].pc = "count"
  /\ adm' = [adm EXCEPT ![w] =
               IF AdminCount <= 1 THEN [@ EXCEPT !.pc = "done", !.code = 409]
               ELSE [@ EXCEPT !.pc = "update"]]
  /\ UNCHANGED <<foodVars, calc, recipes, plans, meals, nextId, version, put, get, roles, tokens, page>>

\* prisma.user.update({ where: { id }, data: { role: body.role } })
PatchUpdate(w) ==
  /\ adm[w].pc = "update"
  /\ roles' = [roles EXCEPT ![adm[w].id] = adm[w].role]
  /\ adm' = [adm EXCEPT ![w].pc = "done", ![w].code = 200]
  /\ UNCHANGED <<foodVars, calc, recipes, plans, meals, nextId, version, put, get, tokens, page>>

AdmReturn(w) ==
  /\ adm[w].pc = "done"
  /\ adm' = [adm EXCEPT ![w] = IdleAdm]
  /\ UNCHANGED <<foodVars, calc, recipes, plans, meals, nextId, version, put, get, roles, tokens, page>>

\* POST /auth/login with the user's credentials: the token carries the role
\* the user has when it is signed
Login(userId) ==
  /\ tokens' = tokens \cup {[sub |-> userId, role |-> roles[userId]]}
  /\ UNCHANGED <<foodVars, calc, recipes, plans, meals, nextId, version, put, get, roles, adm, page>>

\* the routes whose preHandler is [authenticate, requireAdmin]
GatedRoutes == {"postIngredient", "deleteIngredient", "listUsers", "patchRole"}

\* a request to a gated route: id is the target user of patchRole, the row of
\* deleteIngredient, the name in the body of postIngredient
GatedStart(w, route, token, id, role) ==
  /\ adm[w].pc = "idle"
  /\ adm' = [adm EXCEPT ![w] =
               [IdleAdm EXCEPT !.pc = "authenticate", !.route = route, !.token = token,
                               !.id = id, !.role = role]]
  /\ UNCHANGED <<foodVars, calc, recipes, plans, meals, nextId, version, put, get, roles, tokens, page>>

\* authenticate (auth.ts 10-16): 401 if jwtVerify throws, otherwise req.user
\* is the token's payload
Authenticate(w) ==
  /\ adm[w].pc = "authenticate"
  /\ adm' = [adm EXCEPT ![w] =
               IF adm[w].token \notin tokens THEN [@ EXCEPT !.pc = "done", !.code = 401]
               ELSE [@ EXCEPT !.pc = "gate", !.userId = adm[w].token.sub]]
  /\ UNCHANGED <<foodVars, calc, recipes, plans, meals, nextId, version, put, get, roles, tokens, page>>

\* GET /admin/users: prisma.user.findMany
ListUsers(w) ==
  /\ adm[w].pc = "listUsers"
  /\ adm' = [adm EXCEPT ![w].pc = "done", ![w].code = 200]
  /\ UNCHANGED <<foodVars, calc, recipes, plans, meals, nextId, version, put, get, roles, tokens, page>>

----------------------------------------------------------------------------
(* JavaScript numbers, for the nutrition arithmetic.  A natural number of  *)
(* any size is the sequence of its digits to the base 2^15, lowest first,  *)
(* without leading zeros (0 is the empty sequence).  A double that is not  *)
(* negative is [m, e] with value m * 2^e, m = 0 or 2^52 <= m < 2^53; every *)
(* operation gives the double nearest to the exact result, ties to even    *)
(* (no value here is near the ends of the exponent range).                 *)

Base == 32768

RECURSIVE BigFromInt(_)
BigFromInt(n) == IF n = 0 THEN <<>> ELSE <<n % Base>> \o BigFromInt(n \div Base)

RECURSIVE BigToInt(_)
BigToInt(a) == IF a = <<>> THEN 0 ELSE Head(a) + Base * BigToInt(Tail(a))

RECURSIVE BigNorm(_)
BigNorm(a) ==
  IF a = <<>> THEN a
  ELSE IF a[Len(a)] = 0 THEN BigNorm(SubSeq(a, 1, Len(a) - 1)) ELSE a

RECURSIVE BigAddC(_, _, _)
BigAddC(a, b, c) ==
  IF a = <<>> /\ b = <<>> THEN (IF c = 0 THEN <<>> ELSE <<c>>)
  ELSE LET x == (IF a = <<>> THEN 0 ELSE Head(a)) + (IF b = <<>> THEN 0 ELSE Head(b)) + c
       IN <<x % Base>> \o BigAddC(IF a = <<>> THEN a ELSE Tail(a),
                                  IF b = <<>> THEN b ELSE Tail(b), x \div Base)

BigAdd(a, b) == BigAddC(a, b, 0)

\* a - b - c for a >= b + c, before the leading zeros are dropped
RECURSIVE BigSubB(_, _, _)
BigSubB(a, b, c) ==
  IF a = <<>> THEN <<>>
  ELSE LET x == Head(a) - (IF b = <<>> THEN 0 ELSE Head(b)) - c
       IN <<x % Base>> \o BigSubB(Tail(a), IF b = <<>> THEN b ELSE Tail(b),
                                  IF x < 0 THEN 1 ELSE 0)

BigSub(a, b) == BigNorm(BigSubB(a, b, 0))

\* -1, 0 or 1 as a is less than, equal to or greater than b
RECURSIVE BigCmpFrom(_, _, _)
BigCmpFrom(a, b, i) ==
  IF i = 0 THEN 0
  ELSE IF a[i] # b[i] THEN (IF a[i] < b[i] THEN -1 ELSE 1)
  ELSE BigCmpFrom(a, b, i - 1)

BigCmp(a, b) ==
  IF Len(a) # Len(b) THEN (IF Len(a) < Len(b) THEN -1 ELSE 1)
  ELSE BigCmpFrom(a, b, Len(a))

\* a * k + c for a digit k
RECURSIVE BigMulSmall(_, _, _)
BigMulSmall(a, k, c) ==
  IF a = <<>> THEN (IF c = 0 THEN <<>> ELSE <<c>>)
  ELSE LET x == Head(a) * k + c
       IN <<x % Base>> \o BigMulSmall(Tail(a), k, x \div Base)

RECURSIVE BigMul(_, _)
BigMul(a, b) ==
  IF a = <<>> \/ b = <<>> THEN <<>>
  ELSE LET rest == BigMul(a, Tail(b))
       IN BigAdd(BigNorm(BigMulSmall(a, Head(b), 0)),
                 IF rest = <<>> THEN rest ELSE <<0>> \o rest)

RECURSIVE Pow2(_)
Pow2(n) == IF n = 0 THEN 1 ELSE 2 * Pow2(n - 1)

\* a * 2^n
BigShl(a, n) ==
  IF a = <<>> THEN a
  ELSE [i \in 1..(n \div 15) |-> 0] \o BigMulSmall(a, Pow2(n % 15), 0)

RECURSIVE BitLenInt(_)
BitLenInt(n) == IF n = 0 THEN 0 ELSE 1 + BitLenInt(n \div 2)

BitLen(a) == IF a = <<>> THEN 0 ELSE 15 * (Len(a) - 1) + BitLenInt(a[Len(a)])

BigOdd(a) == a # <<>> /\ a[1] % 2 = 1

\* the greatest digit k in lo..hi with k * d <= r (0 * d <= r)
RECURSIVE BigDigit(_, _, _, _)
BigDigit(r, d, lo, hi) ==
  IF lo = hi THEN lo
  ELSE LET mid == (lo + hi + 1) \div 2
       IN IF BigCmp(BigMulSmall(d, mid, 0), r) <= 0 THEN BigDigit(r, d, mid, hi)
          ELSE BigDigit(r, d, lo, mid - 1)

\* long division from digit i of a down, r the remainder so far
RECURSIVE BigDivFrom(_, _, _, _)
BigDivFrom(a, d, i, r) ==
  IF i = 0 THEN [q |-> <<>>, r |-> r]
  ELSE LET r1 == BigNorm(<<a[i]>> \o r)
           k == BigDigit(r1, d, 0, Base - 1)
           r2 == IF k = 0 THEN r1 ELSE BigSub(r1, BigMulSmall(d, k, 0))
           rest == BigDivFrom(a, d, i - 1, r2)
       IN [q |-> rest.q \o <<k>>, r |-> rest.r]

\* [q, r] with a = q * d + r and 0 <= r < d, for d > 0
BigDivMod(a, d) ==
  LET qr == BigDivFrom(a, d, Len(a), <<>>)
  IN [q |-> BigNorm(qr.q), r |-> qr.r]

DZero == [m |-> <<>>, e |-> 0]

\* the double nearest to (num / den) * 2^e2, ties to even.  Read from the
\* innermost set outwards, each step worked out once: num or den is shifted
\* to have a quotient of 53 or 54 bits (s is the shift), once more if it has
\* 54; they are divided; the quotient is rounded; a mantissa that became
\* 2^53 is halved
RoundToDouble(num, den, e2) ==
  IF num = <<>> THEN DZero
  ELSE CHOOSE x \in
    {IF BitLen(t.m) = 54 THEN [m |-> BigShl(<<1>>, 52), e |-> t.s + 1 + e2]
     ELSE [m |-> t.m, e |-> t.s + e2] :
       t \in {LET c == BigCmp(BigShl(t.qr.r, 1), t.d)
              IN [m |-> IF c > 0 \/ (c = 0 /\ BigOdd(t.qr.q))
                        THEN BigAdd(t.qr.q, <<1>>) ELSE t.qr.q,
                  s |-> t.s] :
         t \in {[qr |-> BigDivMod(t.n, t.d), d |-> t.d, s |-> t.s] :
           t \in {LET big == BigCmp(t.n, BigShl(t.d, 53)) >= 0
                  IN [n |-> t.n, d |-> IF big THEN BigShl(t.d, 1) ELSE t.d,
                      s |-> IF big THEN t.s + 1 ELSE t.s] :
             t \in {[n |-> IF s >= 0 THEN num ELSE BigShl(num, -s),
                     d |-> IF s >= 0 THEN BigShl(den, s) ELSE den, s |-> s] :
               s \in {BitLen(num) - BitLen(den) - 53}}}}}} : TRUE

\* the number a decimal text n / den denotes (JSON.parse)
DFromDecimal(n, den) == RoundToDouble(BigFromInt(n), BigFromInt(den), 0)

DMul(a, b) ==
  IF a.m = <<>> \/ b.m = <<>> THEN DZero
  ELSE RoundToDouble(BigMul(a.m, b.m), <<1>>, a.e + b.e)

DDiv(a, b) == IF a.m = <<>> THEN DZero ELSE RoundToDouble(a.m, b.m, a.e - b.e)

DAdd(a, b) ==
  IF a.m = <<>> THEN b
  ELSE IF b.m = <<>> THEN a
  ELSE LET e == IF a.e < b.e THEN a.e ELSE b.e
       IN RoundToDouble(BigAdd(BigShl(a.m, a.e - e), BigShl(b.m, b.e - e)), <<1>>, e)

\* Math.round(x) for x >= 0 below 2^30: floor(x + 1/2), computed exactly
MathRound(x) ==
  IF x.m = <<>> THEN 0
  ELSE IF x.e >= 0 THEN BigToInt(BigShl(x.m, x.e))
  ELSE LET den == BigShl(<<1>>, 1 - x.e)
       IN BigToInt(BigDivMod(BigAdd(BigShl(x.m, 1), BigShl(<<1>>, -x.e)), den).q)

----------------------------------------------------------------------------
(* POST /recipes and DELETE /ingredients/:id, server.ts 102-207.            *)
(* A macro value per 100 g is kept as the decimal text it was sent as, in  *)
(* tenths (3 is 0.3); a quantity is a whole number of grams.  An item      *)
(* refers to its ingredient and its recipe under a foreign key of the      *)
(* store: an item insert holds the ingredient row against deletion until   *)
(* its transaction ends, and fails if the row is gone.                     *)

RecipeWorkers == {"c1"}
DeleteWorkers == {"d1"}

\* POST /recipes requests received in one run
MaxRecipes == 2
\* items of one POST /recipes body
MaxItems == 2

Ingredient(id, kcal, protein, carbs, fat) ==
  [id |-> id, kcalPer100g |-> kcal, proteinPer100g |-> protein,
   carbsPer100g |-> carbs, fatPer100g |-> fat]

Item(ingredientId, quantityG) == [ingredientId |-> ingredientId, quantityG |-> quantityG]

Nutrition(kcal, protein, carbs, fat) ==
  [kcal |-> kcal, protein |-> protein, carbs |-> carbs, fat |-> fat]

NoNutrition == [total |-> Nutrition(0, 0, 0, 0), perServing |-> Nutrition(0, 0, 0, 0)]

NoRecResp == [code |-> 0, error |-> "", id |-> "", recipeId |-> "", nutrition |-> NoNutrition]

IdleRec ==
  [pc |-> "idle", userId |-> "", body |-> [servings |-> 1, items |-> <<>>],
   byId |-> {}, recipeId |-> "", pending |-> {}, resp |-> NoRecResp]

IdleDel == [pc |-> "idle", id |-> "", code |-> 0]

IdleLst == [pc |-> "idle", userId |-> "", resp |-> {}]

\* the ids this worker's recipes get, in the order it creates them
NewRecipeIds == [c1 |-> <<"n1", "n2", "n3", "n4">>]

Created == recipes \ InitRecipes

\* a POST /recipes transaction that has begun and not ended
RecOpen(w) == rec[w].pc = "items"

\* body = Body.parse(req.body): servings >= 1, at least one item, quantityG > 0
RecStart(w, userId, body) ==
  /\ rec[w].pc = "idle"
  /\ Cardinality(Created) < MaxRecipes
  /\ body.servings >= 1 /\ Len(body.items) >= 1
  /\ \A i \in 1..Len(body.items) : body.items[i].quantityG > 0
  /\ rec' = [rec EXCEPT ![w] = [IdleRec EXCEPT !.pc = "lookup", !.userId = userId,
                                               !.body = body]]
  /\ UNCHANGED <<mealVars, roles, tokens, adm, ingredients, items, del, lst, calc, page>>

\* Body.parse(req.body) of POST /recipes returns
RecShapeOk(body) ==
  /\ body.servings >= 1 /\ Len(body.items) >= 1
  /\ \A i \in 1..Len(body.items) :
       body.items[i].ingredientId # "" /\ body.items[i].quantityG > 0

\* POST /recipes with a body that Body.parse rejects
RecThrow(w, userId, body) ==
  /\ rec[w].pc = "idle"
  /\ ~RecShapeOk(body)
  /\ rec' = [rec EXCEPT ![w] =
               [IdleRec EXCEPT !.pc = "done", !.userId = userId, !.body = body,
                  !.resp = [NoRecResp EXCEPT !.code = DefaultErrorStatus(ZodError),
                                             !.error = ZodError.name]]]
  /\ UNCHANGED <<mealVars, roles, tokens, adm, ingredients, items, del, lst, calc, page>>

\* POST /recipes with any body
RecRequest(w, userId, body) ==
  \/ RecShapeOk(body) /\ RecStart(w, userId, body)
  \/ RecThrow(w, userId, body)

\* prisma.ingredient.findMany({ where: { id: { in: ingredientIds } } })
FindIngredients(ingredientIds) == {g \in ingredients : g.id \in ingredientIds}

\* the mutant: the lookup trusted without the loop over the items
FirstUnknownNone(its, byId) == 0

\* for (const it of body.items) if (!byId.has(it.ingredientId)): the index of
\* the first item whose ingredient was not found, 0 if all were
FirstUnknown(its, byId) ==
  LET unknown == {i \in 1..Len(its) : \A g \in byId : g.id # its[i].ingredientId}
  IN IF unknown = {} THEN 0 ELSE CHOOSE i \in unknown : \A j \in unknown : i <= j

\* the lookup and the loop that answers 400 `Unknown ingredientId: ${id}`
RecLookup(w) ==
  /\ rec[w].pc = "lookup"
  /\ LET its == rec[w].body.items
         byId == FindIngredients({its[i].ingredientId : i \in 1..Len(its)})
         bad == FirstUnknown(its, byId)
     IN rec' = [rec EXCEPT ![w] =
                  IF bad # 0
                  THEN [@ EXCEPT !.pc = "done",
                                 !.resp = [NoRecResp EXCEPT !.code = 400,
                                             !.error = "Unknown ingredientId",
                                             !.id = its[bad].ingredientId]]
                  ELSE [@ EXCEPT !.pc = "create", !.byId = byId]]
  /\ UNCHANGED <<mealVars, roles, tokens, adm, ingredients, items, del, lst, calc, page>>

\* prisma.$transaction: tx.recipe.create inserts the Recipe row first
RecCreate(w) ==
  /\ rec[w].pc = "create"
  /\ rec' = [rec EXCEPT ![w].pc = "items",
               ![w].recipeId = NewRecipeIds[w][Cardinality(Created) + 1]]
  /\ UNCHANGED <<mealVars, roles, tokens, adm, ingredients, items, del, lst, calc, page>>

\* the mutant: what a create outside a transaction leaves behind
KeepInserted(rows) == rows

\* the rows of a transaction that failed: rolled back, none stays
RolledBack(rows) == {}

\* the RecipeItem row of item i of the body of worker w
ItemRow(w, i) ==
  [id |-> <<rec[w].recipeId, i>>, recipeId |-> rec[w].recipeId,
   ingredientId |-> rec[w].body.items[i].ingredientId,
   quantityG |-> rec[w].body.items[i].quantityG]

\* items: { create: body.items.map(...) }: the next RecipeItem row goes in,
\* or the foreign key fails (the ingredient is gone) and the handler throws
RecInsertItem(w) ==
  /\ rec[w].pc = "items"
  /\ Cardinality(rec[w].pending) < Len(rec[w].body.items)
  /\ LET i == Cardinality(rec[w].pending) + 1
         row == ItemRow(w, i)
     IN IF \E g \in ingredients : g.id = row.ingredientId
        THEN /\ rec' = [rec EXCEPT ![w].pending = @ \cup {row}]
             /\ UNCHANGED <<recipes, items, page>>
        ELSE LET kept == RolledBack(rec[w].pending)
             IN /\ rec' = [rec EXCEPT ![w].pc = "done", ![w].pending = {},
                             ![w].resp = [NoRecResp EXCEPT !.code = 500,
                                            !.error = "Internal Server Error"]]
                /\ items' = items \cup kept
                /\ recipes' = IF kept = {} THEN recipes
                              ELSE recipes \cup {[id |-> rec[w].recipeId,
                                                  userId |-> rec[w].userId,
                                                  servings |-> rec[w].body.servings]}
  /\ UNCHANGED <<plans, meals, nextId, version, put, get, roles, tokens, adm,
                 ingredients, del, lst, calc, page>>

\* the mutant: the step of the reduce gives the item's values, acc dropped
addNothing(a, b) == b

\* nutrition.ts add
add(a, b) ==
  Nutrition(DAdd(a.kcal, b.kcal), DAdd(a.protein, b.protein),
            DAdd(a.carbs, b.carbs), DAdd(a.fat, b.fat))

\* nutrition.ts round1: Math.round(n * 10) / 10.  The result is the double
\* nearest to k / 10 for the whole number k = Math.round(n * 10), which JSON
\* shows as k / 10 with one decimal: the model keeps k, the value in tenths
round1(n) == MathRound(DMul(n, DFromDecimal(10, 1)))

\* nutrition.ts roundNutrition
roundNutrition(n) ==
  Nutrition(round1(n.kcal), round1(n.protein), round1(n.carbs), round1(n.fat))

\* factor = it.quantityG / 100; { kcal: ing.kcalPer100g * factor, ... }
ItemNutrition(ing, quantityG) ==
  CHOOSE n \in
    {Nutrition(DMul(DFromDecimal(ing.kcalPer100g, 10), factor),
               DMul(DFromDecimal(ing.proteinPer100g, 10), factor),
               DMul(DFromDecimal(ing.carbsPer100g, 10), factor),
               DMul(DFromDecimal(ing.fatPer100g, 10), factor)) :
       factor \in {DDiv(DFromDecimal(quantityG, 1), DFromDecimal(100, 1))}} : TRUE

DZeroNutrition == Nutrition(DZero, DZero, DZero, DZero)

\* body.items.reduce((acc, it) => add(acc, ...byId.get(it.ingredientId)...))
RECURSIVE PostTotals(_, _, _)
PostTotals(its, byId, acc) ==
  IF its = <<>> THEN acc
  ELSE \* (the sum so far is worked out before the next item is looked at)
       CHOOSE totals \in
         {PostTotals(Tail(its), byId, next) :
            next \in {add(acc, ItemNutrition(CHOOSE g \in byId : g.id = Head(its).ingredientId,
                                             Head(its).quantityG))}} : TRUE

\* { kcal: totals.kcal / servings, ... }
PerServing(totals, servings) ==
  CHOOSE perServing \in
    {Nutrition(DDiv(totals.kcal, n), DDiv(totals.protein, n),
               DDiv(totals.carbs, n), DDiv(totals.fat, n)) :
       n \in {DFromDecimal(servings, 1)}} : TRUE

\* nutrition: { total: roundNutrition(totals), perServing: roundNutrition(...) }
NutritionOf(totals, servings) ==
  [total |-> roundNutrition(totals),
   perServing |-> roundNutrition(PerServing(totals, servings))]

\* the transaction commits; the handler computes the nutrition from the
\* request's items and the ingredients it looked up, and answers
RecCommit(w) ==
  /\ rec[w].pc = "items"
  /\ Cardinality(rec[w].pending) = Len(rec[w].body.items)
  /\ recipes' = recipes \cup {[id |-> rec[w].recipeId, userId |-> rec[w].userId,
                               servings |-> rec[w].body.servings]}
  /\ items' = items \cup rec[w].pending
  /\ rec' = [rec EXCEPT ![w].pc = "done", ![w].pending = {},
               ![w].resp = [NoRecResp EXCEPT !.code = 200, !.recipeId = rec[w].recipeId,
                              !.nutrition =
                                NutritionOf(PostTotals(rec[w].body.items, rec[w].byId,
                                                       DZeroNutrition),
                                            rec[w].body.servings)]]
  /\ UNCHANGED <<plans, meals, nextId, version, put, get, roles, tokens, adm,
                 ingredients, del, lst, calc, page>>

RecReturn(w) ==
  /\ rec[w].pc = "done"
  /\ rec' = [rec EXCEPT ![w] = IdleRec]
  /\ UNCHANGED <<mealVars, roles, tokens, adm, ingredients, items, del, lst, calc, page>>

\* GET /recipes
LstStart(userId) ==
  /\ lst.pc = "idle"
  /\ lst' = [IdleLst EXCEPT !.pc = "read", !.userId = userId]
  /\ UNCHANGED <<mealVars, roles, tokens, adm, ingredients, items, rec, del, calc, page>>

\* include: { items: ... } names no order: the orders the store may give
RECURSIVE AnyOrder(_)
AnyOrder(rows) ==
  IF rows = {} THEN {<<>>}
  ELSE UNION {{<<r>> \o rest : rest \in AnyOrder(rows \ {r})} : r \in rows}

\* r.items.reduce((acc, it) => { acc.kcal += it.ingredient.kcalPer100g * factor ... })
RECURSIVE ListTotals(_, _)
ListTotals(rows, acc) ==
  IF rows = <<>> THEN acc
  ELSE \* (the sum so far is worked out before the next item is looked at)
       CHOOSE totals \in
         {ListTotals(Tail(rows), next) :
            next \in {add(acc, ItemNutrition(CHOOSE g \in ingredients :
                                               g.id = Head(rows).ingredientId,
                                             Head(rows).quantityG))}} : TRUE

\* what GET /recipes may show for one recipe
ListViews(r) ==
  {[id |-> r.id, servings |-> r.servings,
    nutrition |-> NutritionOf(ListTotals(rows, DZeroNutrition), r.servings)] :
     rows \in AnyOrder({x \in items : x.recipeId = r.id})}

\* the mutant: findMany without where: { userId }
LstReadAnyOwner ==
  /\ lst.pc = "read"
  /\ \E views \in {[r \in recipes |-> ListViews(r)]} :
       \E view \in [recipes -> UNION {views[r] : r \in recipes}] :
         /\ \A r \in recipes : view[r] \in views[r]
         /\ lst' = [lst EXCEPT !.pc = "done", !.resp = {view[r] : r \in recipes}]
  /\ UNCHANGED <<mealVars, roles, tokens, adm, ingredients, items, rec, del, calc, page>>

\* prisma.recipe.findMany({ where: { userId }, include: items and their
\* ingredient }) and the map over the recipes; the response is kept as the set
\* of its entries
LstRead ==
  /\ lst.pc = "read"
  /\ LET mine == {r \in recipes : r.userId = lst.userId}
     IN \* (what each recipe may show is worked out once)
        \E views \in {[r \in mine |-> ListViews(r)]} :
          \E view \in [mine -> UNION {views[r] : r \in mine}] :
            /\ \A r \in mine : view[r] \in views[r]
            /\ lst' = [lst EXCEPT !.pc = "done", !.resp = {view[r] : r \in mine}]
  /\ UNCHANGED <<mealVars, roles, tokens, adm, ingredients, items, rec, del, calc, page>>

LstReturn ==
  /\ lst.pc = "done"
  /\ lst' = IdleLst
  /\ UNCHANGED <<mealVars, roles, tokens, adm, ingredients, items, rec, del, calc, page>>

\* DELETE /ingredients/:id
DelStart(w, id) ==
  /\ del[w].pc = "idle"
  /\ del' = [del EXCEPT ![w] = [IdleDel EXCEPT !.pc = "delete", !.id = id]]
  /\ UNCHANGED <<mealVars, roles, tokens, adm, ingredients, items, rec, lst, calc, page>>

\* the committed RecipeItem rows that refer to the ingredient
ReferringItems(id) == {r \in items : r.ingredientId = id}

\* an open transaction has inserted an item that refers to the ingredient
HeldByInsert(id) ==
  \E c \in RecipeWorkers : RecOpen(c) /\ \E r \in rec[c].pending : r.ingredientId = id

\* the mutant: no catch for P2003, the error is thrown on (500)
DeleteReplyNoConflict(error) ==
  IF error = "" THEN 204 ELSE IF error = "P2025" THEN 404 ELSE 500

\* the try/catch around the delete: 204, P2025 -> 404, P2003 -> 409, or the
\* error is thrown on (500)
DeleteReply(error) ==
  IF error = "" THEN 204
  ELSE IF error = "P2025" THEN 404
  ELSE IF error = "P2003" THEN 409
  ELSE 500

\* prisma.ingredient.delete({ where: { id } }): P2025 if there is no such
\* row, P2003 if an item refers to it; it waits for an insert that holds it
DelApply(w) ==
  /\ del[w].pc = "delete"
  /\ LET id == del[w].id
         error == IF \A g \in ingredients : g.id # id THEN "P2025"
                  ELSE IF ReferringItems(id) # {} THEN "P2003"
                  ELSE ""
     IN /\ error # "P2025" => ~HeldByInsert(id)
        /\ del' = [del EXCEPT ![w].pc = "done", ![w].code = DeleteReply(error)]
        /\ ingredients' = IF error = "" THEN {g \in ingredients : g.id # id}
                          ELSE ingredients
  /\ UNCHANGED <<mealVars, roles, tokens, adm, items, rec, lst, calc, page>>

DelReturn(w) ==
  /\ del[w].pc = "done"
  /\ del' = [del EXCEPT ![w] = IdleDel]
  /\ UNCHANGED <<mealVars, roles, tokens, adm, ingredients, items, rec, lst, calc, page>>

\* the body of POST /ingredients: rolled oats under the given name
OatsNamed(name) == Ingredient(name, 3890, 169, 663, 69)

\* POST /ingredients: prisma.ingredient.create, P2002 -> 409 if the name is
\* taken (a row is known here by its name)
IngredientCreate(w) ==
  /\ adm[w].pc = "postIngredient"
  /\ LET taken == \E g \in ingredients : g.id = adm[w].id
     IN /\ adm' = [adm EXCEPT ![w].pc = "done", ![w].code = IF taken THEN 409 ELSE 200]
        /\ ingredients' = IF taken THEN ingredients
                          ELSE ingredients \cup {OatsNamed(adm[w].id)}
  /\ UNCHANGED <<mealVars, roles, tokens, items, rec, del, lst, calc, page>>

\* DELETE /ingredients/:id behind the gate: prisma.ingredient.delete and the
\* try/catch around it
IngredientDelete(w) ==
  /\ adm[w].pc = "deleteIngredient"
  /\ LET id == adm[w].id
         error == IF \A g \in ingredients : g.id # id THEN "P2025"
                  ELSE IF ReferringItems(id) # {} THEN "P2003"
                  ELSE ""
     IN /\ error # "P2025" => ~HeldByInsert(id)
        /\ adm' = [adm EXCEPT ![w].pc = "done", ![w].code = DeleteReply(error)]
        /\ ingredients' = IF error = "" THEN {g \in ingredients : g.id # id}
                          ELSE ingredients
  /\ UNCHANGED <<mealVars, roles, tokens, items, rec, del, lst, calc, page>>

----------------------------------------------------------------------------
(* Specifications *)

\* what the concurrent requests send: a Monday and the Wednesday of the same
\* week; 2024-01-01 lies in the week of the Monday only
WeekInputs == {DateString(2024, 1, 1), DateString(2024, 1, 3)}

MealInputs ==
  {Meal(DateString(2024, 1, 1), "breakfast", "r1"),
   Meal(DateString(2024, 1, 7), "dinner", "r1")}

\* the ids a PATCH names: u9 is no user
TargetInputs == Users \cup {"u9"}

\* the ingredients of prisma/seed.ts: chicken breast, rice, olive oil, egg
InitIngredients ==
  {Ingredient("i1", 1650, 310, 0, 36), Ingredient("i2", 1300, 27, 280, 3),
   Ingredient("i3", 8840, 0, 0, 1000), Ingredient("i4", 1430, 130, 11, 95)}

\* a helper function with its arguments, before and after it is evaluated
CalcArgs(op, value, date, weekStart) ==
  [op |-> op, done |-> FALSE, value |-> value, date |-> date, weekStart |-> weekStart,
   text |-> MalformedDate, ok |-> FALSE]

NoCalc == CalcArgs("none", MalformedDate, NoDate, NoDate)

\* date = parseDateOnly(value); text = formatDateOnly(date) unless date is null
EvalParseDateOnly ==
  /\ calc.op = "parseDateOnly" /\ ~calc.done
  /\ LET date == parseDateOnly(calc.value)
     IN calc' = [calc EXCEPT !.done = TRUE, !.date = date,
                   !.text = IF date = NoDate THEN MalformedDate ELSE formatDateOnly(date)]
  /\ UNCHANGED <<mealVars, roles, tokens, adm, foodVars, page>>

\* ok = isWithinWeek(date, weekStart)
EvalIsWithinWeek ==
  /\ calc.op = "isWithinWeek" /\ ~calc.done
  /\ calc' = [calc EXCEPT !.done = TRUE, !.ok = isWithinWeek(calc.date, calc.weekStart)]
  /\ UNCHANGED <<mealVars, roles, tokens, adm, foodVars, page>>

\* weekStart = startOfWeekMonday(date); ok = isWithinWeek(date, weekStart)
EvalStartOfWeekMonday ==
  /\ calc.op = "startOfWeekMonday" /\ ~calc.done
  /\ LET weekStart == startOfWeekMonday(calc.date)
     IN calc' = [calc EXCEPT !.done = TRUE, !.weekStart = weekStart,
                   !.ok = isWithinWeek(calc.date, weekStart)]
  /\ UNCHANGED <<mealVars, roles, tokens, adm, foodVars, page>>

\* the totals of two item lists and of the two put together, as POST
\* /recipes computes and rounds them
TotalsArgs(a, b) ==
  [op |-> "totals", done |-> FALSE, a |-> a, b |-> b,
   totalA |-> NoNutrition.total, totalB |-> NoNutrition.total, totalAB |-> NoNutrition.total]

EvalTotals ==
  /\ calc.op = "totals" /\ ~calc.done
  /\ \E total \in {[its \in {calc.a, calc.b, calc.a \o calc.b} |->
                       roundNutrition(PostTotals(its, ingredients, DZeroNutrition))]} :
       calc' = [calc EXCEPT !.done = TRUE, !.totalA = total[calc.a],
                  !.totalB = total[calc.b], !.totalAB = total[calc.a \o calc.b]]
  /\ UNCHANGED <<mealVars, roles, tokens, adm, foodVars, page>>

\* no recipe created, no recipe or ingredient request in flight
FoodInit ==
  /\ ingredients = InitIngredients
  /\ items = {}
  /\ rec = [w \in RecipeWorkers |-> IdleRec]
  /\ del = [w \in DeleteWorkers |-> IdleDel]
  /\ lst = IdleLst

\* the store before any request
StoreInit ==
  /\ recipes = InitRecipes
  /\ plans = {}
  /\ meals = {}
  /\ nextId = 0
  /\ version = 0
  /\ put = [w \in PutWorkers |-> IdlePut]
  /\ get = [g \in GetWorkers |-> IdleGet]
  /\ roles = [u \in Users |-> "USER"]
  /\ adm = [w \in AdminWorkers |-> IdleAdm]
  /\ tokens = {}
  /\ page = NoPage
  /\ FoodInit

Init == StoreInit /\ calc = NoCalc

\* the store after a first PUT /meal-plans of u1 for the week of 2024-01-01
\* with one meal (request 1: the plan and its meal carry that id)
InitSaved ==
  /\ recipes = InitRecipes
  /\ plans = {[id |-> 1, userId |-> "u1", weekStart |-> parseDateOnly(DateString(2024, 1, 1))]}
  /\ meals = {[id |-> <<1, 1>>, planId |-> 1, date |-> parseDateOnly(DateString(2024, 1, 1)),
               slot |-> "breakfast", recipeId |-> "r1"]}
  /\ nextId = 1
  /\ version = 1
  /\ put = [w \in PutWorkers |-> IdlePut]
  /\ get = [g \in GetWorkers |-> IdleGet]
  /\ roles = [u \in Users |-> "USER"]
  /\ adm = [w \in AdminWorkers |-> IdleAdm]
  /\ tokens = {}
  /\ page = NoPage
  /\ FoodInit
  /\ calc = NoCalc

PutSteps(w) ==
  \/ PutCheckRecipes(w)
  \/ TxFind(w)
  \/ TxCreate(w)
  \/ TxDeleteScan(w)
  \/ TxDeleteApply(w)
  \/ TxInsert(w)
  \/ TxRead(w)
  \/ TxCommit(w)
  \/ PutReturn(w)

GetSteps(g) == GetPlan(g) \/ GetMeals(g) \/ GetReturn(g)

\* two PUT /meal-plans at a time, every interleaving of their queries, over
\* a store that holds a plan
Next ==
  \/ \E w \in PutWorkers, userId \in Users, weekStr \in WeekInputs,
        body \in SeqsUpTo(MealInputs, MaxMeals) : PutStart(w, userId, weekStr, body)
  \/ \E w \in PutWorkers : PutSteps(w)

Spec == InitSaved /\ [][Next]_vars

\* a GET /meal-plans beside the PUT /meal-plans of one worker, every
\* interleaving of their queries
ReadNext ==
  \/ \E userId \in {"u1"}, weekStr \in WeekInputs,
        body \in SeqsUpTo(MealInputs, MaxMeals) : PutStart("p1", userId, weekStr, body)
  \/ PutSteps("p1")
  \/ \E g \in GetWorkers, userId \in {"u1"}, weekStr \in WeekInputs :
       GetStart(g, userId, weekStr)
  \/ \E g \in GetWorkers : GetSteps(g)

SpecRead == InitSaved /\ [][ReadNext]_vars

\* what u1 sends one request at a time: also a date that does not exist, a
\* recipe of another user (r2) and a recipe that does not exist (r9)
SeqWeekInputs ==
  {DateString(2024, 1, 1), DateString(2024, 1, 3), DateString(2024, 2, 30)}

SeqMealInputs ==
  {Meal(DateString(2024, 1, 1), "breakfast", "r1"),
   Meal(DateString(2024, 1, 1), "breakfast", "r2"),
   Meal(DateString(2024, 1, 7), "dinner", "r1"),
   Meal(DateString(2024, 1, 8), "dinner", "r1"),
   Meal(DateString(2024, 2, 30), "breakfast", "r1"),
   Meal(DateString(2024, 1, 7), "dinner", "r9")}

\* no request is in flight and no response is being looked at
AllIdle ==
  /\ \A w \in PutWorkers : put[w].pc = "idle"
  /\ \A g \in GetWorkers : get[g].pc = "idle"

\* one request at a time: a PUT is sent when nothing else goes on, a GET also
\* right after a PUT saved a plan
SeqNext ==
  \/ \E userId \in {"u1"}, weekStr \in SeqWeekInputs,
        body \in SeqsUpTo(SeqMealInputs, MaxMeals) :
       AllIdle /\ PutStart("p1", userId, weekStr, body)
  \/ PutSteps("p1")
  \/ \E userId \in {"u1"}, weekStr \in SeqWeekInputs :
       /\ \A w \in PutWorkers :
            put[w].pc = "idle" \/ (put[w].pc = "done" /\ put[w].resp.code = 200)
       /\ GetStart("g1", userId, weekStr)
  \/ GetSteps("g1")

SpecSeq == Init /\ [][SeqNext]_vars

AdminNext ==
  \/ \E w \in AdminWorkers, userId \in Users : BootstrapStart(w, userId)
  \/ \E w \in AdminWorkers, userId \in Users, id \in TargetInputs,
        role \in {"USER", "ADMIN"} : PatchStart(w, userId, id, role)
  \/ \E w \in AdminWorkers :
       \/ BootstrapCount(w)
       \/ BootstrapUpdate(w)
       \/ RequireAdmin(w)
       \/ PatchFindTarget(w)
       \/ PatchCount(w)
       \/ PatchUpdate(w)
       \/ AdmReturn(w)

SpecAdmin == Init /\ [][AdminNext]_vars

\* what u1 sends to have a week sorted: the week of Monday 2024-01-29, with
\* three slots of its Wednesday and the first slot of its Thursday
SortWeekInputs == {DateString(2024, 1, 29)}

SortMealInputs ==
  {Meal(DateString(2024, 2, 1), "breakfast", "r1"),
   Meal(DateString(2024, 1, 31), "dinner", "r1"),
   Meal(DateString(2024, 1, 31), "afternoon_snack", "r1"),
   Meal(DateString(2024, 1, 31), "lunch", "r1")}

\* one request at a time, as SeqNext
SortNext ==
  \/ \E userId \in {"u1"}, weekStr \in SortWeekInputs,
        body \in SeqsUpTo(SortMealInputs, MaxMeals) :
       AllIdle /\ PutStart("p1", userId, weekStr, body)
  \/ PutSteps("p1")
  \/ \E userId \in {"u1"}, weekStr \in SortWeekInputs :
       /\ \A w \in PutWorkers :
            put[w].pc = "idle" \/ (put[w].pc = "done" /\ put[w].resp.code = 200)
       /\ GetStart("g1", userId, weekStr)
  \/ GetSteps("g1")

SpecSort == Init /\ [][SortNext]_vars

\* the texts parseDateOnly is given: well-formed or not, months 0 to 13 and
\* days 0 to 32 of a leap year, of common years and of the century years
DateYears == {1970, 2000, 2023, 2024, 2100, 9999}

DateInputs ==
  {[wf |-> wf, y |-> y, m |-> m, d |-> d] :
     wf \in BOOLEAN, y \in DateYears, m \in 0..13, d \in 0..32}

\* the UTC midnights isWithinWeek is given: a week start and the days from
\* eight days before it to eight days after it
WeekStartInputs ==
  {DaysFromCivil(1970, 1, 9), DaysFromCivil(2023, 12, 25), DaysFromCivil(2024, 1, 1),
   DaysFromCivil(2024, 2, 26), DaysFromCivil(2024, 3, 6)}

MaxDayOffset == 8

InitDates ==
  /\ StoreInit
  /\ \/ \E value \in DateInputs : calc = CalcArgs("parseDateOnly", value, NoDate, NoDate)
     \/ \E weekStart \in WeekStartInputs, k \in -MaxDayOffset..MaxDayOffset :
          calc = CalcArgs("isWithinWeek", MalformedDate, weekStart + k, weekStart)

DatesNext == EvalParseDateOnly \/ EvalIsWithinWeek

SpecDates == InitDates /\ [][DatesNext]_vars

\* the days startOfWeekMonday is given: each day from eight days before to
\* eight days after a day of year 1, of 1969, of 1970, of 2024 (with February
\* 29) and of the last week of 9999
WeekDayAnchors ==
  {DaysFromCivil(1, 1, 3), DaysFromCivil(1969, 12, 28), DaysFromCivil(1970, 1, 9),
   DaysFromCivil(2024, 1, 1), DaysFromCivil(2024, 2, 26), DaysFromCivil(9999, 12, 23)}

InitWeekDays ==
  /\ StoreInit
  /\ \E a \in WeekDayAnchors, k \in -MaxDayOffset..MaxDayOffset :
       calc = CalcArgs("startOfWeekMonday", MalformedDate, a + k, NoDate)

SpecWeekDays == InitWeekDays /\ [][EvalStartOfWeekMonday]_vars

\* the page's clock, and the dates its date field is given: days of the
\* stored week, of year 50, of the first week of year 100 and of the last
\* week of 9999
TodayInputs == {DateString(2024, 1, 10)}

DayInputs ==
  {DateString(2024, 1, 7), DateString(50, 6, 15), DateString(100, 1, 1),
   DateString(9999, 12, 30)}

\* the Selects the page is worked through: the first and last day of the
\* week, two of the slots, recipe r1 or None
SlotInputs == {"breakfast", "dinner"}
DayIndexInputs == {1, 7}

\* requests received by the time the page stops saving (one is stored)
MaxSaves == 2

PageNext ==
  \/ \E today \in TodayInputs : PageMount(today)
  \/ \E value \in DayInputs : onAnyDayChange(value)
  \/ PlanLoaded
  \/ \E idx \in DayIndexInputs, slot \in SlotInputs, recipeId \in {"", "r1"} :
       /\ page.pc = "shown"
       /\ setSlotRecipe(page.weekDates[idx], slot, recipeId)
  \/ clearWeek
  \/ nextId < MaxSaves /\ save
  \/ PageSend
  \/ PutCheckRecipes(PageWorker)
  \/ TxFind(PageWorker)
  \/ TxCreate(PageWorker)
  \/ TxDeleteScan(PageWorker)
  \/ TxDeleteApply(PageWorker)
  \/ TxInsert(PageWorker)
  \/ TxRead(PageWorker)
  \/ TxCommit(PageWorker)
  \/ PageSettled

SpecPage == InitSaved /\ [][PageNext]_vars

\* one admin request at a time
AdminIdle == \A w \in AdminWorkers : adm[w].pc = "idle"

AdminSeqNext ==
  \/ \E w \in AdminWorkers, userId \in Users : AdminIdle /\ BootstrapStart(w, userId)
  \/ \E w \in AdminWorkers, userId \in Users, id \in TargetInputs,
        role \in {"USER", "ADMIN"} : AdminIdle /\ PatchStart(w, userId, id, role)
  \/ \E w \in AdminWorkers :
       \/ BootstrapCount(w)
       \/ BootstrapUpdate(w)
       \/ RequireAdmin(w)
       \/ PatchFindTarget(w)
       \/ PatchCount(w)
       \/ PatchUpdate(w)
       \/ AdmReturn(w)

SpecAdminSeq == Init /\ [][AdminSeqNext]_vars

\* the token a gated request carries: one that login signed, or none
GateTokens == tokens \cup {NoToken}

\* what the gated requests ask for: a role for a user, the list of users, a
\* new ingredient (i5), the removal of the egg (i4)
GateRequests ==
  {[route |-> "patchRole", id |-> id, role |-> role] :
     id \in Users, role \in {"USER", "ADMIN"}}
  \cup {[route |-> "listUsers", id |-> "", role |-> ""],
         [route |-> "postIngredient", id |-> "i5", role |-> ""],
         [route |-> "deleteIngredient", id |-> "i4", role |-> ""]}

\* each user logs in once, at any moment; bootstrap-self; gated requests of
\* two clients side by side, the second one only demoting
GateNext ==
  \/ \E userId \in Users :
       AdminIdle /\ (\A t \in tokens : t.sub # userId) /\ Login(userId)
  \/ \E w \in AdminWorkers, userId \in Users : AdminIdle /\ BootstrapStart(w, userId)
  \/ \E w \in AdminWorkers, token \in GateTokens, q \in GateRequests :
       /\ w = "a2" => q.route = "patchRole" /\ q.role = "USER"
       /\ GatedStart(w, q.route, token, q.id, q.role)
  \/ \E w \in AdminWorkers :
       \/ BootstrapCount(w)
       \/ BootstrapUpdate(w)
       \/ Authenticate(w)
       \/ RequireAdmin(w)
       \/ ListUsers(w)
       \/ IngredientCreate(w)
       \/ IngredientDelete(w)
       \/ PatchFindTarget(w)
       \/ PatchCount(w)
       \/ PatchUpdate(w)
       \/ AdmReturn(w)

SpecGate == Init /\ [][GateNext]_vars

\* what is sent beside a DELETE /ingredients/:id: recipes of one serving with
\* chicken breast, rice and an ingredient that does not exist (i9)
FoodItemInputs == {Item("i1", 100), Item("i2", 50), Item("i9", 100)}

FoodBodies ==
  {[servings |-> 1, items |-> its] : its \in SeqsUpTo(FoodItemInputs, MaxItems)}

FoodDeleteInputs == {"i1", "i2", "i9"}

RecSteps(w) ==
  \/ RecLookup(w)
  \/ RecCreate(w)
  \/ RecInsertItem(w)
  \/ RecCommit(w)
  \/ RecReturn(w)

\* a POST /recipes beside a DELETE /ingredients/:id, every interleaving of
\* their queries
FoodNext ==
  \/ \E w \in RecipeWorkers, body \in FoodBodies : RecStart(w, "u1", body)
  \/ \E w \in RecipeWorkers : RecSteps(w)
  \/ \E w \in DeleteWorkers, id \in FoodDeleteInputs : DelStart(w, id)
  \/ \E w \in DeleteWorkers : DelApply(w) \/ DelReturn(w)

SpecFood == Init /\ [][FoodNext]_vars

\* the recipes u1 creates and then lists: 200 g of chicken breast for two;
\* 450 g of rice; chicken breast, rice and olive oil; chicken breast twice,
\* for three
NutritionBodies ==
  {[servings |-> 2, items |-> <<Item("i1", 200)>>],
   [servings |-> 1, items |-> <<Item("i2", 450)>>],
   [servings |-> 1, items |-> <<Item("i1", 100), Item("i2", 150), Item("i3", 150)>>],
   [servings |-> 3, items |-> <<Item("i1", 100), Item("i1", 50)>>]}

\* one request at a time: a POST /recipes, and a GET /recipes when no POST is
\* at work (its response may still be looked at)
NutritionNext ==
  \/ \E w \in RecipeWorkers, body \in NutritionBodies :
       lst.pc = "idle" /\ RecStart(w, "u1", body)
  \/ \E w \in RecipeWorkers : RecSteps(w)
  \/ /\ \A w \in RecipeWorkers : rec[w].pc \in {"idle", "done"}
     /\ LstStart("u1")
  \/ LstRead
  \/ LstReturn

SpecNutrition == Init /\ [][NutritionNext]_vars

\* the item lists whose totals are compared: rice, chicken breast and egg
TotalsItemInputs == {Item("i2", 50), Item("i1", 100), Item("i4", 30)}

InitTotals ==
  /\ StoreInit
  /\ \E a, b \in SeqsUpTo(TotalsItemInputs, MaxItems) \ {<<>>} : calc = TotalsArgs(a, b)

SpecTotals == InitTotals /\ [][EvalTotals]_vars

\* meals in one PUT /meal-plans body with several defects
MaxOrderMeals == 3

\* a week and a weekStart that is no date
OrderWeekInputs == {DateString(2024, 1, 1), DateString(2024, 2, 30)}

\* a meal of the week, the same slot again with a recipe that does not exist,
\* a date that does not exist, a date after the week, a recipe of u2
OrderMealInputs ==
  {Meal(DateString(2024, 1, 1), "breakfast", "r1"),
   Meal(DateString(2024, 1, 1), "breakfast", "r9"),
   Meal(DateString(2024, 2, 30), "lunch", "r1"),
   Meal(DateString(2024, 1, 8), "dinner", "r1"),
   Meal(DateString(2024, 1, 2), "lunch", "r2")}

\* u1 sends bodies with any mix of these, one request at a time
OrderNext ==
  \/ \E weekStr \in OrderWeekInputs, body \in SeqsUpTo(OrderMealInputs, MaxOrderMeals) :
       PutStart("p1", "u1", weekStr, body)
  \/ PutSteps("p1")

SpecOrder == Init /\ [][OrderNext]_vars

\* meals that name u1's recipe, u2's recipe and the first recipe created
OwnMealInputs ==
  {Meal(DateString(2024, 1, 1), "breakfast", "r1"),
   Meal(DateString(2024, 1, 1), "lunch", "r2"),
   Meal(DateString(2024, 1, 2), "dinner", "n1")}

\* no request is in flight
OwnIdle ==
  /\ rec["c1"].pc = "idle" /\ put["p1"].pc = "idle"
  /\ get["g1"].pc = "idle" /\ lst.pc = "idle"

\* either user creates recipes (100 g of chicken breast, one serving) and
\* saves the week of 2024-01-01, one request at a time
OwnNext ==
  \/ \E userId \in Users :
       /\ OwnIdle
       /\ RecStart("c1", userId, [servings |-> 1, items |-> <<Item("i1", 100)>>])
  \/ RecSteps("c1")
  \/ \E userId \in Users, body \in SeqsUpTo(OwnMealInputs, MaxMeals) :
       OwnIdle /\ PutStart("p1", userId, DateString(2024, 1, 1), body)
  \/ PutSteps("p1")

SpecOwn == Init /\ [][OwnNext]_vars

\* the saves of the week of 2024-01-01: u1 with its own recipe or with u2's,
\* u2 with its own
SharedPuts ==
  {[userId |-> "u1", weekStart |-> DateString(2024, 1, 1),
    meals |-> <<Meal(DateString(2024, 1, 1), "breakfast", "r1")>>],
   [userId |-> "u1", weekStart |-> DateString(2024, 1, 1),
    meals |-> <<Meal(DateString(2024, 1, 1), "breakfast", "r2")>>],
   [userId |-> "u2", weekStart |-> DateString(2024, 1, 1),
    meals |-> <<Meal(DateString(2024, 1, 1), "lunch", "r2")>>]}

\* what u1 and u2 do around each other: first either of them creates recipes;
\* then they save, and u2 lists its recipes and reads its week, one request
\* at a time
SharedNext ==
  \/ \E userId \in Users :
       /\ OwnIdle /\ nextId = 0
       /\ RecStart("c1", userId, [servings |-> 1, items |-> <<Item("i1", 100)>>])
  \/ RecSteps("c1")
  \/ \E q \in SharedPuts :
       OwnIdle /\ PutStart("p1", q.userId, q.weekStart, q.meals)
  \/ PutSteps("p1")
  \/ OwnIdle /\ LstStart("u2")
  \/ LstRead
  \/ LstReturn
  \/ OwnIdle /\ GetStart("g1", "u2", DateString(2024, 1, 1))
  \/ GetSteps("g1")

SpecShared == Init /\ [][SharedNext]_vars

\* bodies of PUT /meal-plans: a well shaped one, one without weekStart, one
\* with a slot outside the enum, one whose second meal has an empty recipeId
ShapePutBodies ==
  {[weekStart |-> DateString(2024, 1, 1),
    meals |-> <<Meal(DateString(2024, 1, 1), "breakfast", "r1")>>],
   [weekStart |-> NoString,
    meals |-> <<Meal(DateString(2024, 1, 1), "breakfast", "r1")>>],
   [weekStart |-> DateString(2024, 1, 1),
    meals |-> <<Meal(DateString(2024, 1, 2), "brunch", "r1")>>],
   [weekStart |-> DateString(2024, 1, 1),
    meals |-> <<Meal(DateString(2024, 1, 1), "breakfast", "r1"),
                Meal(DateString(2024, 1, 3), "lunch", "")>>]}

\* bodies of POST /recipes: a well shaped one, servings 0, no item, a
\* quantity of 0, a second item with a negative quantity
ShapeRecBodies ==
  {[servings |-> 1, items |-> <<Item("i1", 100)>>],
   [servings |-> 0, items |-> <<Item("i1", 100)>>],
   [servings |-> 1, items |-> <<>>],
   [servings |-> 1, items |-> <<Item("i1", 0)>>],
   [servings |-> 1, items |-> <<Item("i1", 100), Item("i2", -5)>>]}

\* u1 sends PUT /meal-plans and POST /recipes with any of these bodies, the
\* two routes side by side
ShapeNext ==
  \/ \E raw \in ShapePutBodies : PutRequest("p1", "u1", raw)
  \/ PutSteps("p1")
  \/ \E body \in ShapeRecBodies : RecRequest("c1", "u1", body)
  \/ RecSteps("c1")

SpecShape == Init /\ [][ShapeNext]_vars

----------------------------------------------------------------------------
(* What the claims speak of *)

\* a PlannedMeal row, or a parsed meal of a request, as (date, slot, recipeId)
Content(r) == Meal(r.date, r.slot, r.recipeId)

\* the committed rows of the week the PUT of worker w saves
StoredFor(w) == StoredRows(plans, meals, put[w].userId, put[w].weekStart)

Saved(w) == put[w].pc = "done" /\ put[w].resp.code = 200

\* the stored rows of w's week are the meals of w's request, one row each
StoredIsRequestOf(w) ==
  /\ Cardinality(StoredFor(w)) = Len(put[w].meals)
  /\ {Content(r) : r \in StoredFor(w)} = {put[w].meals[i] : i \in 1..Len(put[w].meals)}

\* as sent: two meals of the body have the same date text and the same slot
SendsDuplicateSlot(body) ==
  \E i, j \in 1..Len(body.meals) :
    i < j /\ body.meals[i].date = body.meals[j].date /\ body.meals[i].slot = body.meals[j].slot

\* as sent: the weekStart is a date and every meal date is one of its 7 days
SendsDatesOfTheWeek(body) ==
  /\ parseDateOnly(body.weekStart) # NoDate
  /\ \A i \in 1..Len(body.meals) :
       /\ parseDateOnly(body.meals[i].date) # NoDate
       /\ parseDateOnly(body.meals[i].date) - parseDateOnly(body.weekStart) \in 0..6

\* the recipes a body names that are no recipe of userId
NotOwnRecipes(userId, body) ==
  {body.meals[i].recipeId : i \in 1..Len(body.meals)}
    \ {r.id : r \in {r \in recipes : r.userId = userId}}

\* worker w has just been answered 400
Rejected(w) == put[w].pc # "done" /\ put'[w].pc = "done" /\ put'[w].resp.code = 400

----------------------------------------------------------------------------
(* C1: when two PUT /meal-plans of one user for one weekStart have both    *)
(* succeeded, the meals stored for that week are exactly the meals of one  *)
(* of the two requests, never a union or a mixture.                        *)
C1_OneOfTheTwoSaves ==
  \A w1, w2 \in PutWorkers :
    (/\ w1 # w2
     /\ Saved(w1) /\ Saved(w2)
     /\ put[w1].userId = put[w2].userId
     /\ put[w1].weekStart = put[w2].weekStart)
    => (StoredIsRequestOf(w1) \/ StoredIsRequestOf(w2))

(* C2: a GET /meal-plans beside a PUT /meal-plans of the same user and     *)
(* week answers with the complete set of meals that was stored when it     *)
(* began or that a save committed while it ran: never the week with the    *)
(* old meals deleted and the new ones missing, never a part of the new.    *)
C2_GetSeesCompleteSet ==
  \A g \in GetWorkers :
    (get[g].pc = "done" /\ get[g].resp.code = 200)
    => /\ get[g].rows \in get[g].seen
       /\ Len(get[g].resp.meals) = Cardinality(get[g].rows)
       /\ {get[g].resp.meals[i] : i \in 1..Len(get[g].resp.meals)}
            = {MealView(r) : r \in get[g].rows}

\* a GET answered with the old meals while the save has deleted them and
\* not yet committed
C2_Witness ==
  \E g \in GetWorkers :
    /\ get[g].pc = "done" /\ get[g].rows # {}
    /\ put["p1"].pc \in {"insert", "read", "commit"}
    /\ put["p1"].planId = get[g].planId
    /\ {r.id : r \in get[g].rows} = put["p1"].deleted
    /\ get[g].verMeals = version

(* C3: in every reachable state no meal plan holds two PlannedMeal rows    *)
(* with the same (date, slot).                                             *)
C3_OneMealPerSlot ==
  \A r1, r2 \in meals :
    (r1.planId = r2.planId /\ r1.date = r2.date /\ r1.slot = r2.slot) => r1 = r2

(* C4: once a user has role ADMIN, every later state has a user with role  *)
(* ADMIN.                                                                  *)
C4_AdminNeverLost == [][AdminCount > 0 => AdminCount' > 0]_vars

(* C5: after a PUT /meal-plans of user U for week W succeeded, with no     *)
(* write in between, GET /meal-plans?weekStart=W by U answers with the id, *)
(* weekStart and meals of the PUT response, and those meals are exactly    *)
(* the (date, slot, recipeId) sent: what was stored before is gone, and an *)
(* empty list leaves an empty list.                                        *)
C5_GetAfterPut ==
  \A w \in PutWorkers, g \in GetWorkers :
    (/\ Saved(w)
     /\ get[g].pc = "done" /\ get[g].resp.code = 200
     /\ get[g].userId = put[w].userId
     /\ get[g].query.weekStart = put[w].body.weekStart
     /\ get[g].verPlan = put[w].ver /\ get[g].verMeals = put[w].ver)
    => /\ get[g].resp.id = put[w].resp.id
       /\ get[g].resp.id # NoId
       /\ get[g].resp.weekStart = put[w].resp.weekStart
       /\ get[g].resp.meals = put[w].resp.meals
       /\ Len(get[g].resp.meals) = Len(put[w].body.meals)
       /\ {get[g].resp.meals[i] : i \in 1..Len(get[g].resp.meals)}
            = {put[w].body.meals[i] : i \in 1..Len(put[w].body.meals)}

\* a save with an empty list over a week that had meals, then the GET
C5_Witness ==
  \E w \in PutWorkers, g \in GetWorkers :
    /\ Saved(w) /\ put[w].deleted # {} /\ put[w].body.meals = <<>>
    /\ get[g].pc = "done" /\ get[g].resp.code = 200
    /\ get[g].userId = put[w].userId
    /\ get[g].query.weekStart = put[w].body.weekStart
    /\ get[g].verPlan = put[w].ver /\ get[g].verMeals = put[w].ver
    /\ get[g].resp.meals = <<>>

(* C6: in every reachable state there is at most one MealPlan row per      *)
(* (owner, weekStart), also after two concurrent first saves of a week.    *)
C6_OnePlanPerOwnerWeek ==
  \A p1, p2 \in plans :
    (p1.userId = p2.userId /\ p1.weekStart = p2.weekStart) => p1 = p2

\* two first saves of one week side by side: one created the plan, the
\* other's create was refused
C6_Witness ==
  \E w1, w2 \in PutWorkers :
    /\ Saved(w1) /\ put[w1].created
    /\ put[w2].pc = "done" /\ put[w2].resp.code = 500
    /\ put[w1].userId = put[w2].userId
    /\ put[w1].body.weekStart = put[w2].body.weekStart

\* the answer to a body with a duplicate slot
C7_DuplicateState ==
  \A w \in PutWorkers :
    (/\ put[w].pc # "idle"
     /\ SendsDatesOfTheWeek(put[w].body)
     /\ SendsDuplicateSlot(put[w].body))
    => /\ put[w].pc = "done"
       /\ put[w].resp.code = 400
       /\ put[w].resp.error = "Duplicate slot for date"
       /\ \E i, j \in 1..Len(put[w].body.meals) :
            /\ i < j
            /\ put[w].body.meals[i].date = put[w].body.meals[j].date
            /\ put[w].body.meals[i].slot = put[w].body.meals[j].slot
            /\ put[w].resp.date = put[w].body.meals[j].date

\* the step that answers it
C7_DuplicateStep ==
  \A w \in PutWorkers :
    (Rejected(w) /\ SendsDuplicateSlot(put'[w].body))
    => (plans' = plans /\ meals' = meals)

(* C7: a PUT /meal-plans whose meals hold two entries with the same date    *)
(* and slot (whatever their recipeIds, the dates being valid and inside    *)
(* the week) is answered 400 with the duplicate-slot error naming that     *)
(* date, and plans and planned meals stay as they were.                    *)
C7_DuplicateRejected == []C7_DuplicateState /\ [][C7_DuplicateStep]_vars

\* the two entries name different recipes, and the store holds a plan
C7_Witness ==
  \E w \in PutWorkers :
    /\ put[w].pc = "done"
    /\ put[w].resp.error = "Duplicate slot for date"
    /\ Len(put[w].body.meals) = 2
    /\ put[w].body.meals[1].recipeId # put[w].body.meals[2].recipeId
    /\ meals # {}

DaysInMonth(y, m) ==
  IF m = 2 THEN (IF IsLeapYear(y) THEN 29 ELSE 28)
  ELSE IF m \in {4, 6, 9, 11} THEN 30 ELSE 31

\* as sent: the text is YYYY-MM-DD and names a day of the calendar
IsCalendarDate(s) == s.wf /\ s.m \in 1..12 /\ s.d \in 1..DaysInMonth(s.y, s.m)

\* as sent: the weekday of a calendar date, 0 for Sunday (Sakamoto's rule)
WeekdayOf(s) ==
  LET t == <<0, 3, 2, 5, 0, 3, 5, 1, 4, 6, 2, 4>>
      y == IF s.m < 3 THEN s.y - 1 ELSE s.y
  IN (y + y \div 4 - y \div 100 + y \div 400 + t[s.m] + s.d) % 7

RecipeError == "One or more recipes were not found for this user"

\* the answer to a body that passes the date and duplicate checks
C8_RecipeState ==
  \A w \in PutWorkers :
    (/\ put[w].pc # "idle"
     /\ SendsDatesOfTheWeek(put[w].body)
     /\ ~SendsDuplicateSlot(put[w].body))
    => IF NotOwnRecipes(put[w].userId, put[w].body) # {}
       THEN /\ put[w].pc \in {"recipes", "done"}
            /\ put[w].pc = "done" =>
                 /\ put[w].resp.code = 400
                 /\ put[w].resp.error = RecipeError
                 /\ put[w].resp.id = NoId
                 /\ put[w].resp.date = MalformedDate
       ELSE put[w].resp.error # RecipeError

\* the step that answers it
C8_RecipeStep ==
  \A w \in PutWorkers :
    (Rejected(w) /\ put'[w].resp.error = RecipeError)
    => (plans' = plans /\ meals' = meals)

(* C8: a PUT /meal-plans that passes the date and duplicate checks and     *)
(* names a recipeId that does not exist or belongs to another user is      *)
(* answered 400 (no id named) and leaves plans and planned meals as they   *)
(* were; if every recipeId named is a recipe of the requester, the check   *)
(* passes.                                                                 *)
C8_UnknownOrForeignRecipe == []C8_RecipeState /\ [][C8_RecipeStep]_vars

\* rejected once for a recipe of another user, over a store that holds meals
C8_Witness ==
  \E w \in PutWorkers :
    /\ put[w].pc = "done" /\ put[w].resp.error = RecipeError
    /\ \E i \in 1..Len(put[w].body.meals) :
         \E r \in recipes : r.id = put[w].body.meals[i].recipeId /\ r.userId # put[w].userId
    /\ meals # {}

\* as sent: meal i of the body is no calendar date, or no day of the week
BadFormat(body, i) == ~IsCalendarDate(body.meals[i].date)
OutsideWeek(body, i) ==
  /\ IsCalendarDate(body.meals[i].date)
  /\ DaysFromCivil(body.meals[i].date.y, body.meals[i].date.m, body.meals[i].date.d)
       - DaysFromCivil(body.weekStart.y, body.weekStart.m, body.weekStart.d) \notin 0..6

\* every stored meal belongs to a stored plan and lies in its 7 days
C9_Window ==
  \A r \in meals :
    /\ \E p \in plans : p.id = r.planId
    /\ \A p \in plans : p.id = r.planId => r.date - p.weekStart \in 0..6

\* the answer to a body with a meal date that is malformed or outside
C9_DateState ==
  \A w \in PutWorkers :
    (/\ put[w].pc # "idle"
     /\ IsCalendarDate(put[w].body.weekStart)
     /\ \E i \in 1..Len(put[w].body.meals) :
          BadFormat(put[w].body, i) \/ OutsideWeek(put[w].body, i))
    => /\ put[w].pc = "done"
       /\ put[w].resp.code = 400
       /\ \E i \in 1..Len(put[w].body.meals) :
            /\ put[w].resp.date = put[w].body.meals[i].date
            /\ \/ /\ BadFormat(put[w].body, i)
                  /\ put[w].resp.error = "Meal date must be YYYY-MM-DD"
               \/ /\ OutsideWeek(put[w].body, i)
                  /\ put[w].resp.error = "Meal date is outside selected week"

\* the step that answers it
C9_DateStep ==
  \A w \in PutWorkers :
    (/\ Rejected(w)
     /\ put'[w].resp.error \in {"Meal date must be YYYY-MM-DD",
                                "Meal date is outside selected week"})
    => (plans' = plans /\ meals' = meals)

(* C9: in every reachable state every PlannedMeal's date lies in the       *)
(* closed 7-day window [weekStart, weekStart + 6 days] of its MealPlan; a  *)
(* PUT /meal-plans with a meal date outside that window or not a valid     *)
(* YYYY-MM-DD date is answered 400 naming the date and stores nothing.     *)
C9_MealDatesInWeek == [](C9_Window /\ C9_DateState) /\ [][C9_DateStep]_vars

\* rejected for the day after the week's last, over a store that holds a
\* meal on the week's last day
C9_Witness ==
  \E w \in PutWorkers :
    /\ put[w].pc = "done"
    /\ put[w].resp.error = "Meal date is outside selected week"
    /\ DaysFromCivil(put[w].resp.date.y, put[w].resp.date.m, put[w].resp.date.d)
         = parseDateOnly(put[w].body.weekStart) + 7
    /\ \E r \in meals : \E p \in plans :
         p.id = r.planId /\ p.weekStart = parseDateOnly(put[w].body.weekStart)
           /\ r.date = p.weekStart + 6

(* C10 as claimed: in every reachable state the weekStart of every stored  *)
(* MealPlan is a Monday (UTC, date-only), whatever PUT /meal-plans         *)
(* requests are sent.                                                      *)
C10_WeekStartIsMonday == \A p \in plans : IsMonday(p.weekStart)

(* C10 as amended: the weekStart of every stored MealPlan is the calendar  *)
(* date the saving PUT /meal-plans sent as weekStart, stored as sent (UTC, *)
(* date-only) and not normalised: it is a Monday exactly when the sent     *)
(* weekStart is a Monday.                                                  *)
C10_WeekStartAsSent ==
  /\ \A p \in plans : formatDateOnly(p.weekStart) \in SeqWeekInputs
  /\ \A w \in PutWorkers :
       Saved(w) =>
         /\ IsCalendarDate(put[w].body.weekStart)
         /\ \E p \in plans :
              /\ p.id = put[w].resp.id
              /\ p.userId = put[w].userId
              /\ formatDateOnly(p.weekStart) = put[w].body.weekStart
              /\ IsMonday(p.weekStart) <=> (WeekdayOf(put[w].body.weekStart) = 1)

\* a plan saved for a Wednesday
C10_Witness ==
  \E w \in PutWorkers :
    /\ Saved(w) /\ put[w].created
    /\ WeekdayOf(put[w].body.weekStart) = 3
    /\ \E p \in plans : p.id = put[w].resp.id /\ UTCDay(p.weekStart) = 3

----------------------------------------------------------------------------
(* The order of the meals of a response *)

\* as the claim orders them: the calendar order of the date texts, then
\* breakfast, lunch, afternoon_snack, dinner
CalendarOrdinal(s) == s.y * 10000 + s.m * 100 + s.d

SlotOrdinal(slot) ==
  CASE slot = "breakfast" -> 1
    [] slot = "lunch" -> 2
    [] slot = "afternoon_snack" -> 3
    [] slot = "dinner" -> 4
    [] OTHER -> 5

InClaimedOrder(ms) ==
  \A i, j \in 1..Len(ms) :
    i < j =>
      \/ CalendarOrdinal(ms[i].date) < CalendarOrdinal(ms[j].date)
      \/ /\ CalendarOrdinal(ms[i].date) = CalendarOrdinal(ms[j].date)
         /\ SlotOrdinal(ms[i].slot) <= SlotOrdinal(ms[j].slot)

(* C11: the meals of every 200 response of PUT /meal-plans and of GET        *)
(* /meal-plans are in ascending order of date and, within a date, in the    *)
(* order breakfast, lunch, afternoon_snack, dinner, whatever the order they *)
(* were sent or stored in; a slot outside the four ranks after all of them. *)
C11_MealsSorted ==
  /\ \A w \in PutWorkers : put[w].resp.code = 200 => InClaimedOrder(put[w].resp.meals)
  /\ \A g \in GetWorkers : get[g].resp.code = 200 => InClaimedOrder(get[g].resp.meals)
  /\ \A i \in 1..Len(slotSortOrder) : slotRank("brunch") > slotRank(slotSortOrder[i])

\* a GET answers lunch before dinner for a day whose dinner was sent and
\* stored first
C11_Witness ==
  /\ get["g1"].pc = "done"
  /\ get["g1"].resp.meals = <<Meal(DateString(2024, 1, 31), "lunch", "r1"),
                               Meal(DateString(2024, 1, 31), "dinner", "r1")>>
  /\ \E a, b \in meals :
       a.slot = "dinner" /\ b.slot = "lunch" /\ a.id[1] = b.id[1] /\ a.id[2] < b.id[2]

----------------------------------------------------------------------------
(* The date helpers, evaluated *)

(* C12: parseDateOnly followed by formatDateOnly gives back the text of     *)
(* every date of the calendar, and parseDateOnly gives null for a text that *)
(* is not YYYY-MM-DD or names no day of the calendar.                       *)
C12_ParseFormatRoundTrip ==
  (calc.op = "parseDateOnly" /\ calc.done) =>
    IF IsCalendarDate(calc.value)
    THEN calc.date # NoDate /\ calc.text = calc.value
    ELSE calc.date = NoDate

\* the leap day comes back as sent
C12_Witness ==
  /\ calc.op = "parseDateOnly" /\ calc.done
  /\ calc.value = DateString(2024, 2, 29)
  /\ calc.text = DateString(2024, 2, 29)

(* C13: isWithinWeek(d, w) is true exactly when d is one of the seven days  *)
(* w, w+1, ..., w+6: true at w and w+6, false at w+7 and w-1.               *)
C13_WithinWeekExactly ==
  (calc.op = "isWithinWeek" /\ calc.done) =>
    /\ calc.ok <=> (calc.date \in {calc.weekStart + k : k \in 0..6})
    /\ calc.date = calc.weekStart => calc.ok
    /\ calc.date = calc.weekStart + 6 => calc.ok
    /\ calc.date = calc.weekStart + 7 => ~calc.ok
    /\ calc.date = calc.weekStart - 1 => ~calc.ok

\* the day before the week start is found outside the week
C13_Witness ==
  /\ calc.op = "isWithinWeek" /\ calc.done
  /\ calc.date = calc.weekStart - 1
  /\ ~calc.ok

----------------------------------------------------------------------------
(* The last admin, one request at a time *)

\* a PATCH /admin/users/:id/role in flight
IsPatch(w) == adm[w].role # ""

\* the PATCH of w asks to make a USER of someone who is an ADMIN
Demotes(w) ==
  /\ IsPatch(w) /\ adm[w].role = "USER"
  /\ adm[w].id \in DOMAIN roles /\ roles[adm[w].id] = "ADMIN"

C20_State ==
  \A w \in AdminWorkers :
    /\ (adm[w].pc = "update" /\ Demotes(w)) => AdminCount >= 2
    /\ (IsPatch(w) /\ adm[w].id \notin DOMAIN roles) =>
         /\ adm[w].pc \notin {"count", "update"}
         /\ adm[w].pc = "done" => adm[w].code \in {403, 404}
    /\ (IsPatch(w) /\ adm[w].pc = "done" /\ adm[w].code = 404) =>
         adm[w].id \notin DOMAIN roles

C20_Step ==
  \A w \in AdminWorkers :
    /\ (adm[w].pc \in {"target", "count"} /\ Demotes(w) /\ AdminCount = 1) =>
         /\ roles' = roles
         /\ adm'[w].pc \in {"target", "count", "done"}
         /\ adm'[w].pc = "done" => adm'[w].code = 409
    /\ (IsPatch(w) /\ adm[w].pc # "done" /\ adm'[w].pc = "done"
          /\ adm'[w].code \in {404, 409}) => roles' = roles

(* C20: with one request at a time, a PATCH that would make a USER of the   *)
(* only ADMIN answers 409 and changes no role; the demotion goes through    *)
(* only with two ADMINs or more at the count; a PATCH naming an id that is  *)
(* no user answers 404 and changes no role.                                 *)
C20_LastAdminKept == [](C20_State) /\ [][C20_Step]_vars

\* the only admin asked to be made a USER, and the answer is 409
C20_Witness ==
  \E w \in AdminWorkers :
    /\ adm[w].pc = "done" /\ adm[w].code = 409
    /\ Demotes(w) /\ AdminCount = 1

----------------------------------------------------------------------------
(* Recipes and the ingredients they refer to *)

\* as the claim has it: the places in the body of items whose ingredient is
\* not in the store
UnknownPlaces(its) ==
  {i \in 1..Len(its) : its[i].ingredientId \notin {g.id : g \in ingredients}}

C17_Step ==
  \A w \in RecipeWorkers :
    (rec[w].pc = "lookup" /\ rec'[w].pc # "lookup") =>
      LET its == rec[w].body.items
          unknown == UnknownPlaces(its)
      IN IF unknown # {}
         THEN /\ rec'[w].pc = "done"
              /\ rec'[w].resp.code = 400
              /\ rec'[w].resp.error = "Unknown ingredientId"
              /\ \E i \in unknown :
                   /\ \A j \in unknown : i <= j
                   /\ rec'[w].resp.id = its[i].ingredientId
              /\ recipes' = recipes /\ items' = items
         ELSE rec'[w].pc = "create" /\ rec'[w].resp.code # 400

C17_State ==
  \A w \in RecipeWorkers :
    (rec[w].pc = "done" /\ rec[w].resp.code = 400) =>
      /\ rec[w].recipeId = "" /\ rec[w].pending = {}
      /\ \E i \in 1..Len(rec[w].body.items) :
           rec[w].body.items[i].ingredientId = rec[w].resp.id

(* C17: a POST /recipes with an item whose ingredientId is not in the store *)
(* answers 400 naming the first such id in the order of the items and       *)
(* stores nothing; with every ingredient found the validation passes.       *)
C17_UnknownIngredientNamed == [](C17_State) /\ [][C17_Step]_vars

\* two unknown ids, a deleted one before one that never was: the first is
\* the one named
C17_Witness ==
  \E w \in RecipeWorkers :
    /\ rec[w].pc = "done" /\ rec[w].resp.code = 400
    /\ Len(rec[w].body.items) = 2
    /\ rec[w].body.items[1].ingredientId = "i2"
    /\ rec[w].body.items[2].ingredientId = "i9"
    /\ rec[w].resp.id = "i2"

C18_Step ==
  \A w \in DeleteWorkers :
    (del[w].pc = "delete" /\ del'[w].pc = "done") =>
      LET id == del[w].id
          present == \E g \in ingredients : g.id = id
          referenced == \E r \in items : r.ingredientId = id
      IN /\ (present /\ referenced) =>
              del'[w].code = 409 /\ ingredients' = ingredients /\ items' = items
         /\ del'[w].code = 204 =>
              /\ present /\ ~referenced
              /\ ingredients' = {g \in ingredients : g.id # id}
              /\ items' = items
         /\ ~present =>
              del'[w].code = 404 /\ ingredients' = ingredients /\ items' = items

(* C18: DELETE /ingredients/:id of an ingredient that a stored recipe item  *)
(* refers to answers 409 and removes neither the ingredient nor any item;   *)
(* it answers 204 and removes the ingredient only when no item refers to    *)
(* it; it answers 404 when there is no such ingredient.                     *)
C18_ReferencedNotDeleted == [][C18_Step]_vars

\* a 409 for an ingredient that an item refers to, and both are still there
C18_Witness ==
  \E w \in DeleteWorkers :
    /\ del[w].pc = "done" /\ del[w].code = 409
    /\ \E g \in ingredients : g.id = del[w].id
    /\ \E r \in items : r.ingredientId = del[w].id

C19_State ==
  \A r \in items :
    /\ \E g \in ingredients : g.id = r.ingredientId
    /\ \E c \in recipes : c.id = r.recipeId

C19_Step ==
  /\ \A c \in recipes :
       {r \in items' : r.recipeId = c.id} = {r \in items : r.recipeId = c.id}
  /\ \A c \in recipes' \ recipes :
       \E w \in RecipeWorkers :
         LET its == rec[w].body.items
             stored == {r \in items' : r.recipeId = c.id}
         IN /\ Cardinality(stored) = Len(its)
            /\ \A i \in 1..Len(its) :
                 \E r \in stored : /\ r.ingredientId = its[i].ingredientId
                                   /\ r.quantityG = its[i].quantityG
                                   /\ r.id[2] = i

(* C19: under every interleaving of a POST /recipes and a DELETE            *)
(* /ingredients/:id, also with the delete between the lookup and the        *)
(* insert, every stored recipe item refers to a stored ingredient, and a    *)
(* recipe is stored with all the items of its request or not at all.        *)
C19_ItemsReferToIngredients == [](C19_State) /\ [][C19_Step]_vars

\* the delete fell between the insert of the first item and that of the
\* second: the POST failed and left nothing
C19_Witness ==
  \E w \in RecipeWorkers :
    /\ rec[w].pc = "done" /\ rec[w].resp.code = 500
    /\ Len(rec[w].body.items) = 2
    /\ rec[w].body.items[1].ingredientId # rec[w].body.items[2].ingredientId
    /\ \A g \in ingredients : g.id # rec[w].body.items[2].ingredientId
    /\ Created = {} /\ items = {}

----------------------------------------------------------------------------
(* The nutrition of a recipe *)

Macros == {"kcal", "protein", "carbs", "fat"}

\* the stored value per 100 g of one macro of the ingredient of an item, in
\* tenths
Per100g(it, c) ==
  LET ing == CHOOSE g \in InitIngredients : g.id = it.ingredientId
  IN CASE c = "kcal" -> ing.kcalPer100g
       [] c = "protein" -> ing.proteinPer100g
       [] c = "carbs" -> ing.carbsPer100g
       [] c = "fat" -> ing.fatPer100g

\* as the claim has it: the sum over the items of macroPer100g * q / 100, as
\* the whole number of thousandths it is
RECURSIVE SumOfItems(_, _)
SumOfItems(its, c) ==
  IF its = <<>> THEN 0
  ELSE Per100g(Head(its), c) * Head(its).quantityG + SumOfItems(Tail(its), c)

\* to one decimal place, halves away from zero: thousandths over a divisor
\* to tenths
HalfAwayTenths(thousandths, divisor) ==
  (thousandths + 50 * divisor) \div (100 * divisor)

(* C14: POST /recipes answers, for each of kcal, protein, carbs and fat,    *)
(* total = the sum over the items of macroPer100g * q / 100 rounded to one  *)
(* decimal place with halves away from zero, and perServing = that          *)
(* unrounded sum divided by the servings, rounded the same way.             *)
C14_NutritionAsContracted ==
  \A w \in RecipeWorkers :
    (rec[w].pc = "done" /\ rec[w].resp.code = 200) =>
      \A c \in Macros :
        LET sum == SumOfItems(rec[w].body.items, c)
        IN /\ rec[w].resp.nutrition.total[c] = HalfAwayTenths(sum, 1)
           /\ rec[w].resp.nutrition.perServing[c] =
                HalfAwayTenths(sum, rec[w].body.servings)

C16_ListAgreesWithCreation ==
  \A w \in RecipeWorkers :
    (lst.pc = "done" /\ rec[w].pc = "done" /\ rec[w].resp.code = 200) =>
      \A e \in lst.resp :
        e.id = rec[w].resp.recipeId => e.nutrition = rec[w].resp.nutrition

----------------------------------------------------------------------------
(* The admin gate *)

\* the positions of a gated request inside its handler
HandlerPcs == {"target", "count", "update", "listUsers", "postIngredient", "deleteIngredient"}

\* a step that leaves every stored row as it was
StoredSame ==
  /\ roles' = roles /\ ingredients' = ingredients /\ items' = items
  /\ recipes' = recipes /\ plans' = plans /\ meals' = meals

C21_State ==
  \A w \in AdminWorkers :
    adm[w].route \in GatedRoutes /\ adm[w].pc # "authenticate" =>
      /\ adm[w].pc \in HandlerPcs => adm[w].token \in tokens
      /\ adm[w].pc = "done" =>
           /\ adm[w].code = 401 <=> adm[w].token \notin tokens
           /\ adm[w].code # 0

C21_Step ==
  \A w \in AdminWorkers :
    adm[w].route \in GatedRoutes /\ adm'[w] # adm[w] =>
      /\ adm[w].pc = "authenticate" /\ adm[w].token \notin tokens =>
           adm'[w].pc = "done" /\ adm'[w].code = 401 /\ StoredSame
      /\ adm[w].pc = "gate" /\ roles[adm[w].userId] # "ADMIN" =>
           adm'[w].pc = "done" /\ adm'[w].code = 403 /\ StoredSame
      /\ adm'[w].pc \in HandlerPcs /\ adm[w].pc \notin HandlerPcs =>
           /\ adm[w].pc = "gate" /\ adm[w].token \in tokens
           /\ adm[w].userId = adm[w].token.sub /\ roles[adm[w].userId] = "ADMIN"
      /\ ~StoredSame => adm[w].pc \in HandlerPcs
      /\ adm'[w].code = 403 /\ adm[w].code # 403 =>
           adm[w].pc = "gate" /\ roles[adm[w].userId] # "ADMIN"

\* C21: a gated request (POST /ingredients, DELETE /ingredients/:id, GET
\* /admin/users, PATCH /admin/users/:id/role) reaches its handler, and so
\* changes stored rows, only from a gate step taken with a valid token while
\* the requester's stored role is ADMIN; without a valid token it ends in 401,
\* with a stored role other than ADMIN (whatever role the token carries) in
\* 403, and neither step changes a stored row.
C21_GateAdmitsOnlyAdmins == [](C21_State) /\ [][C21_Step]_vars

\* a demoted admin, whose token still carries ADMIN, has been answered 403,
\* and the other client's gated request is inside its handler
C21_Witness ==
  \E w \in AdminWorkers :
    /\ adm[w].route \in GatedRoutes /\ adm[w].pc = "done" /\ adm[w].code = 403
    /\ adm[w].token \in tokens /\ adm[w].token.role = "ADMIN"
    /\ \E v \in AdminWorkers \ {w} : adm[v].pc \in HandlerPcs

----------------------------------------------------------------------------
(* Bodies of a malformed shape *)

C22_Step ==
  /\ \A w \in PutWorkers :
       put[w].pc = "idle" /\ put'[w].pc # "idle" /\ ~PutShapeOk(put'[w].body) =>
         put'[w].pc = "done" /\ put'[w].resp.code = 400 /\ StoredSame
  /\ \A w \in RecipeWorkers :
       rec[w].pc = "idle" /\ rec'[w].pc # "idle" /\ ~RecShapeOk(rec'[w].body) =>
         rec'[w].pc = "done" /\ rec'[w].resp.code = 400 /\ StoredSame

\* C22: a PUT /meal-plans or POST /recipes whose body has a malformed shape
\* (a slot outside the enum, no weekStart, servings < 1, quantityG <= 0, no
\* item) is answered with HTTP 400 and changes no stored row.
C22_MalformedShapeIs400 == [][C22_Step]_vars

----------------------------------------------------------------------------
(* GET /meal-plans only reads *)

\* the committed plans of a user for a week
PlanRowsFor(userId, weekStart) ==
  {p \in plans : p.userId = userId /\ p.weekStart = weekStart}

C23_State ==
  \A g \in GetWorkers :
    get[g].pc = "done" /\ get[g].resp.code = 200 =>
      /\ get[g].resp.weekStart = get[g].query.weekStart
      /\ get[g].resp.id = NoId => get[g].resp.meals = <<>>

C23_Step ==
  /\ (put' = put /\ get' # get) => StoredSame /\ nextId' = nextId /\ version' = version
  /\ \A g \in GetWorkers :
       get[g].pc = "plan" /\ get'[g].pc # "plan" =>
         /\ PlanRowsFor(get[g].userId, get[g].weekStart) = {} =>
              /\ get'[g].pc = "done"
              /\ get'[g].resp = PlanResp(NoId, get[g].query.weekStart, <<>>)
         /\ PlanRowsFor(get[g].userId, get[g].weekStart) # {} =>
              get'[g].pc = "meals" /\ get'[g].planId # NoId
  /\ plans' # plans =>
       \E w \in PutWorkers :
         /\ put[w].pc = "commit" /\ put'[w].pc = "done"
         /\ \A p \in plans' \ plans :
              p.userId = put[w].userId /\ p.weekStart = put[w].weekStart

\* C23: no step of GET /meal-plans changes a stored row; a GET that finds no
\* plan of the requester for the week answers id null, no meals and the
\* weekStart as sent, and a plan for a user and week comes to exist only by
\* the commit of a PUT /meal-plans of that user for that week, so every GET
\* before that commit answers id null.
C23_GetOnlyReads == [](C23_State) /\ [][C23_Step]_vars

\* after another week of the user was saved again, a GET for the week that
\* was never saved has answered id null
C23_Witness ==
  \E g \in GetWorkers :
    /\ get[g].pc = "done" /\ get[g].resp.code = 200
    /\ get[g].resp.id = NoId /\ get[g].resp.meals = <<>>
    /\ get[g].resp.weekStart = DateString(2024, 1, 3)
    /\ get[g].verPlan > 1
    /\ PlanRowsFor(get[g].userId, get[g].weekStart) = {}

----------------------------------------------------------------------------
(* The order of the checks of PUT /meal-plans *)

\* the least number of a set of numbers, 0 if there is none
Least(S) == IF S = {} THEN 0 ELSE CHOOSE i \in S : \A j \in S : i <= j

\* as sent: the error the check order makes of a body, "" if it has no defect
OrderedError(userId, body) ==
  LET n        == Len(body.meals)
      firstBad == Least({i \in 1..n : BadFormat(body, i) \/ OutsideWeek(body, i)})
      firstDup == Least({i \in 1..n : \E j \in 1..(i - 1) :
                           /\ body.meals[j].date = body.meals[i].date
                           /\ body.meals[j].slot = body.meals[i].slot})
  IN IF ~IsCalendarDate(body.weekStart)
       THEN [error |-> "weekStart must be YYYY-MM-DD", date |-> MalformedDate]
     ELSE IF firstBad # 0
       THEN [error |-> IF BadFormat(body, firstBad) THEN "Meal date must be YYYY-MM-DD"
                       ELSE "Meal date is outside selected week",
             date |-> body.meals[firstBad].date]
     ELSE IF firstDup # 0
       THEN [error |-> "Duplicate slot for date", date |-> body.meals[firstDup].date]
     ELSE IF NotOwnRecipes(userId, body) # {}
       THEN [error |-> RecipeError, date |-> MalformedDate]
     ELSE [error |-> "", date |-> MalformedDate]

\* C24: a PUT /meal-plans with several defects is answered by the first check
\* that fails, in the fixed order: malformed weekStart; else the first meal in
\* submission order whose date is malformed or outside the week; else the
\* duplicate (date, slot) at its second occurrence; else the unknown or
\* foreign recipe; and 200 only if there is no defect.
C24_ErrorFollowsCheckOrder ==
  \A w \in PutWorkers :
    put[w].pc = "done" =>
      LET e == OrderedError(put[w].userId, put[w].body)
      IN /\ put[w].resp.error = e.error
         /\ put[w].resp.date = e.date
         /\ put[w].resp.code = IF e.error = "" THEN 200 ELSE 400

\* a body whose first two meals collide and whose third has a malformed date
\* was answered with the date error, and names a recipe that does not exist
C24_Witness ==
  \E w \in PutWorkers :
    /\ put[w].pc = "done" /\ Len(put[w].body.meals) = 3
    /\ put[w].body.meals[1].date = put[w].body.meals[2].date
    /\ put[w].body.meals[1].slot = put[w].body.meals[2].slot
    /\ BadFormat(put[w].body, 3)
    /\ NotOwnRecipes(put[w].userId, put[w].body) # {}
    /\ put[w].resp.error = "Meal date must be YYYY-MM-DD"
    /\ put[w].resp.date = put[w].body.meals[3].date

----------------------------------------------------------------------------
(* Planned meals and the owner of their recipes *)

\* C25: in every reachable state every PlannedMeal row belongs to a MealPlan
\* and names a Recipe row that exists and has the user of that MealPlan, for
\* any POST /recipes and PUT /meal-plans of any users.
C25_MealsNameOwnRecipes ==
  \A r \in meals :
    /\ \E p \in plans : p.id = r.planId
    /\ \A p \in plans :
         p.id = r.planId =>
           \E q \in recipes : q.id = r.recipeId /\ q.userId = p.userId

\* both users have a plan with meals, one of them names a recipe that was
\* created by POST /recipes, and a PUT has been refused for its recipes
C25_Witness ==
  /\ \A u \in Users : \E p \in plans : p.userId = u /\ \E r \in meals : r.planId = p.id
  /\ \E r \in meals : r.recipeId \notin {q.id : q \in InitRecipes}
  /\ \E w \in PutWorkers : put[w].pc = "done" /\ put[w].resp.error = RecipeError

----------------------------------------------------------------------------
(* bootstrap-self beside bootstrap-self *)

C26_Step ==
  \A w \in AdminWorkers :
    /\ (adm[w].pc = "bootUpdate" /\ adm'[w].pc # "bootUpdate") =>
         /\ AdminCount = 0
         /\ roles' = [roles EXCEPT ![adm[w].userId] = "ADMIN"]
    /\ (adm[w].pc = "bootCount" /\ adm'[w].pc # "bootCount" /\ AdminCount > 0) =>
         adm'[w].pc = "done" /\ adm'[w].code = 409 /\ roles' = roles

\* C26: under any interleaving, POST /admin/bootstrap-self writes role ADMIN
\* only while no user has role ADMIN, so two bootstrap-self requests of
\* different users never both succeed; a call that counts an ADMIN answers
\* 409 and changes no role.
C26_BootstrapOnlyWithoutAdmin == [][C26_Step]_vars

----------------------------------------------------------------------------
(* What one user's requests show of another user's rows *)

\* the rows of a user: recipes with their items, plans with their meals
RowsOf(u, rs, its, ps, ms) ==
  [recipes |-> {r \in rs : r.userId = u},
   items   |-> {x \in its : \E r \in rs : r.userId = u /\ r.id = x.recipeId},
   plans   |-> {q \in ps : q.userId = u},
   meals   |-> {m \in ms : \E q \in ps : q.userId = u /\ q.id = m.planId}]

\* what the responses to a user show is made of the user's rows alone
C27_State ==
  /\ \A g \in GetWorkers :
       get[g].pc = "done" /\ get[g].resp.code = 200 =>
         LET own  == RowsOf(get[g].userId, recipes, items, plans, meals)
             week == {q \in own.plans : q.weekStart = get[g].weekStart}
             rows == {m \in own.meals : \E q \in week : q.id = m.planId}
         IN /\ get[g].resp.id \in (IF week = {} THEN {NoId} ELSE {q.id : q \in week})
            /\ Len(get[g].resp.meals) = Cardinality(rows)
            /\ {get[g].resp.meals[i] : i \in 1..Len(get[g].resp.meals)}
                 = {Meal(formatDateOnly(m.date), m.slot, m.recipeId) : m \in rows}
  /\ lst.pc = "done" =>
       LET own == RowsOf(lst.userId, recipes, items, plans, meals)
       IN /\ {v.id : v \in lst.resp} = {r.id : r \in own.recipes}
          /\ \A v \in lst.resp : \E r \in own.recipes :
               /\ r.id = v.id /\ r.servings = v.servings
               /\ \E rows \in AnyOrder({x \in own.items : x.recipeId = r.id}) :
                    v.nutrition = NutritionOf(ListTotals(rows, DZeroNutrition), r.servings)
  /\ \A m \in meals, q \in plans, r \in recipes :
       (q.id = m.planId /\ r.id = m.recipeId) => r.userId = q.userId

\* the rows of a user change only at the commit of that user's own request
C27_Step ==
  \A u \in Users :
    RowsOf(u, recipes', items', plans', meals') # RowsOf(u, recipes, items, plans, meals) =>
      \/ \E w \in PutWorkers : put[w].userId = u /\ put[w].pc = "commit" /\ put'[w].pc = "done"
      \/ \E c \in RecipeWorkers : rec[c].userId = u /\ rec[c].pc = "items" /\ rec'[c].pc = "done"

\* C27: what GET /recipes and GET /meal-plans answer to a user is made of
\* that user's own recipes, items, plans and meals (and the ingredients), no
\* POST /recipes or PUT /meal-plans of another user changes those rows, and no
\* plan holds a meal that names a recipe of another user.
C27_OwnRowsOnly == [](C27_State) /\ [][C27_Step]_vars

\* u2 is shown its recipes, fewer than there are, while u1 has a created
\* recipe and a saved week of its own
C27_Witness ==
  /\ lst.pc = "done" /\ lst.userId = "u2" /\ lst.resp # {}
  /\ \E r \in Created : r.userId = "u1"
  /\ \E r \in Created : r.userId = "u2"
  /\ \E q \in plans : q.userId = "u1" /\ \E m \in meals : m.planId = q.id

----------------------------------------------------------------------------
(* What a save of one week leaves alone *)

\* the plans other than the one of a user's week, and the meals that are not
\* of the given plan
OtherPlans(ps, userId, weekStart) ==
  {q \in ps : ~(q.userId = userId /\ q.weekStart = weekStart)}

OtherMeals(ms, planId) == {m \in ms : m.planId # planId}

C28_State ==
  \A w \in PutWorkers :
    Saved(w) =>
      \E q \in plans :
        /\ q.userId = put[w].userId /\ q.weekStart = put[w].weekStart
        /\ q.id = put[w].resp.id /\ q.id = put[w].planId

C28_Step ==
  /\ (plans' # plans \/ meals' # meals) =>
       \E w \in PutWorkers :
         /\ put[w].pc = "commit" /\ Saved(w)'
         /\ OtherPlans(plans', put[w].userId, put[w].weekStart)
              = OtherPlans(plans, put[w].userId, put[w].weekStart)
         /\ OtherMeals(meals', put[w].planId) = OtherMeals(meals, put[w].planId)
         /\ \A q \in plans :
              (q.userId = put[w].userId /\ q.weekStart = put[w].weekStart) =>
                q \in plans' /\ q.id = put[w].planId
         /\ \A m \in meals' : m.planId = put[w].planId => \E q \in plans' :
              q.id = m.planId /\ q.userId = put[w].userId /\ q.weekStart = put[w].weekStart
  /\ recipes' = recipes /\ ingredients' = ingredients /\ items' = items /\ roles' = roles

\* C28: a successful PUT /meal-plans of user U for weekStart W changes only
\* the MealPlan of (U, W) and its PlannedMeals: every other plan, also one of
\* U whose 7 days overlap those of W, every meal of another plan, every
\* recipe, ingredient and user stay as they are, and a plan of (U, W) that
\* exists keeps its id.
C28_SaveTouchesOneWeek == [](C28_State) /\ [][C28_Step]_vars

\* u1 has saved the week of 2024-01-03 with a meal on 2024-01-07 while its
\* week of 2024-01-01 keeps a meal on the same day, and the plan of the
\* first save still has its id after a later save
C28_Witness ==
  /\ \E p1, p2 \in plans :
       /\ p1.userId = "u1" /\ p2.userId = "u1" /\ p1.id = 1
       /\ formatDateOnly(p1.weekStart) = DateString(2024, 1, 1)
       /\ formatDateOnly(p2.weekStart) = DateString(2024, 1, 3)
       /\ \E m1, m2 \in meals :
            /\ m1.planId = p1.id /\ m2.planId = p2.id /\ m1.date = m2.date
            /\ m1.id # <<1, 1>>
  /\ \E w \in PutWorkers : Saved(w) /\ put[w].userId = "u1"

----------------------------------------------------------------------------
(* The Monday of a day's week *)

\* C29: for every UTC date d, startOfWeekMonday(d) is a Monday m with
\* m <= d <= m + 6 days, so that isWithinWeek(d, m) holds, and
\* startOfWeekMonday(m) = m.
C29_MondayOfTheWeek ==
  (calc.op = "startOfWeekMonday" /\ calc.done) =>
    /\ WeekdayOf(CivilFromDays(calc.weekStart)) = 1
    /\ calc.weekStart <= calc.date /\ calc.date <= calc.weekStart + 6
    /\ calc.ok
    /\ startOfWeekMonday(calc.weekStart) = calc.weekStart

\* the Monday of a Sunday is six days before it
C29_Witness ==
  /\ calc.op = "startOfWeekMonday" /\ calc.done
  /\ WeekdayOf(CivilFromDays(calc.date)) = 0
  /\ calc.weekStart = calc.date - 6

----------------------------------------------------------------------------
(* What the page saves *)

DateErrors ==
  {"weekStart must be YYYY-MM-DD", "Meal date must be YYYY-MM-DD",
   "Meal date is outside selected week", "Duplicate slot for date"}

\* C30: for every weekStart the page reaches and every selections state, the
\* payload of save() has a Monday weekStart in YYYY-MM-DD form, only dates
\* among the seven dates of that week and no two meals with the same (date,
\* slot), so the weekStart, date-format, within-week and duplicate-slot
\* checks of PUT /meal-plans never reject it.
C30_SavedPayloadIsAccepted ==
  page.payload # NoPayload =>
    LET weekStart == parseDateOnly(page.payload.weekStart)
        body      == page.payload.meals
    IN /\ weekStart # NoDate /\ WeekdayOf(page.payload.weekStart) = 1
       /\ \A i \in 1..Len(body) :
            /\ parseDateOnly(body[i].date) # NoDate
            /\ parseDateOnly(body[i].date) - weekStart \in 0..6
       /\ \A i, j \in 1..Len(body) :
            (body[i].date = body[j].date /\ body[i].slot = body[j].slot) => i = j
       /\ put[PageWorker].tx = page.tx => put[PageWorker].resp.error \notin DateErrors

====
